---------------------------- MODULE Spec2Model ----------------------------
(***************************************************************************)
(* The SELECT front-end of the InfluxQL parser                             *)
(* (influxdb_influxql_parser/src/select.rs): select_statement and its      *)
(* sub-productions, the Display implementations, and the parse / display   *)
(* round trip.                                                             *)
(*                                                                         *)
(* Text is a sequence of lexical pieces: each piece is a string of         *)
(* characters of one class (a word, a run of digits, a duration component, *)
(* a punctuation mark, a whitespace run), and the text denoted is the      *)
(* concatenation of its pieces.  A parser takes the remaining pieces and   *)
(* returns a nom result:                                                   *)
(*    Ok(rem, val)     success, with the input that is left                *)
(*    Err(at, msg)     nom::Err::Error,   recoverable                      *)
(*    Fail(at, msg)    nom::Err::Failure, unrecoverable                    *)
(* An Option is a sequence of length 0 (None) or 1 (Some).                 *)
(*                                                                         *)
(* Two more parts of the repository have a specification of their own:     *)
(* the HTTP front-end (influxdb_ioxd/http/mod.rs: serve and route_request) *)
(* under HttpSpec, and the test server type (server_type/test.rs: join and *)
(* shutdown) under ServerSpec.                                             *)
(***************************************************************************)
EXTENDS Integers, Sequences, FiniteSets, TLC

VARIABLES pc, src, input, result, text, result2, text2,
          features, serving, serve_shutdown, req, routed,
          test_action, shutdown, joins, shutdown_calls

parser_vars == <<pc, src, input, result, text, result2, text2>>

\* The HTTP front-end: the cargo features of the build, serve's state and
\* its CancellationToken, the request in flight and what route_request
\* did with the last one.
http_vars == <<features, serving, serve_shutdown, req, routed>>

\* TestServerType: its test_action and its CancellationToken, each
\* caller's join() and the number of shutdown() calls made.
server_vars == <<test_action, shutdown, joins, shutdown_calls>>

vars == <<parser_vars, http_vars, server_vars>>

RECURSIVE multispace0(_)
RECURSIVE IdentRun(_)
RECURSIVE QuotedBody(_, _, _)
RECURSIVE WriteEscaped(_, _)
RECURSIVE duration_more(_, _)
RECURSIVE Flatten(_)
RECURSIVE P(_, _, _)
RECURSIVE D(_, _)
RECURSIVE ListDisplay(_, _)
RECURSIVE LeftOperand(_)
RECURSIVE Subqueries(_)
RECURSIVE Parentheses(_)
RECURSIVE NestingFrom(_, _)

---------------------------------------------------------------------------
(* nom results and Options                                                 *)

Ok(rem, val) == [ok |-> TRUE, rem |-> rem, val |-> val]

Err(at, msg) == [ok |-> FALSE, fatal |-> FALSE, at |-> at, msg |-> msg]

Fail(at, msg) == [ok |-> FALSE, fatal |-> TRUE, at |-> at, msg |-> msg]

None == << >>

Some(v) == <<v>>

IsSome(o) == Len(o) = 1

Flatten(ss) == IF ss = << >> THEN << >> ELSE Head(ss) \o Flatten(Tail(ss))

---------------------------------------------------------------------------
(* The lexical pieces                                                      *)

Space == {" ", "  ", "\n"}

\* Pieces written in upper or mixed case, with their lower-case form.
UpperPairs ==
  { <<"SELECT", "select">>, <<"FROM", "from">>, <<"WHERE", "where">>,
    <<"GROUP", "group">>, <<"BY", "by">>, <<"TIME", "time">>,
    <<"Time", "time">>, <<"FILL", "fill">>, <<"ORDER", "order">>,
    <<"ASC", "asc">>, <<"DESC", "desc">>, <<"LIMIT", "limit">>,
    <<"OFFSET", "offset">>, <<"SLIMIT", "slimit">>,
    <<"SOFFSET", "soffset">>, <<"TZ", "tz">>, <<"AS", "as">>,
    <<"DISTINCT", "distinct">>, <<"NULL", "null">>, <<"NONE", "none">>,
    <<"PREVIOUS", "previous">>, <<"LINEAR", "linear">>, <<"TAG", "tag">>,
    <<"FIELD", "field">>, <<"NOW", "now">>, <<"COUNT", "count">>,
    <<"Fill", "fill">>, <<"None", "none">>, <<"Linear", "linear">> }

Lower(p) ==
  IF \E q \in UpperPairs : q[1] = p
  THEN (CHOOSE q \in UpperPairs : q[1] = p)[2]
  ELSE p

\* The reserved words of the language among the pieces (lower case).
Keywords ==
  {"select", "from", "where", "group", "by", "order", "asc", "desc", "limit",
   "offset", "slimit", "soffset", "as", "distinct", "tag", "field"}

\* Pieces made of letters, digits and '_' that begin with a letter.
Words ==
  {q[1] : q \in UpperPairs} \cup {q[2] : q \in UpperPairs}
    \cup {"v", "m", "foo", "bar", "host", "value", "cpu", "stamp", "sum", "f1",
          "ify", "n", "p"}

NumValue ==
  [p \in {"1", "3", "5", "05", "20", "25"} |->
     CASE p = "1" -> 1 [] p = "3" -> 3 [] p = "5" -> 5 [] p = "05" -> 5
       [] p = "20" -> 20 [] p = "25" -> 25]

\* One <integer><unit> component of a duration literal, in seconds.
DurValue ==
  [p \in {"5m", "1m", "3s", "60s", "90s"} |->
     CASE p = "5m" -> 300 [] p = "1m" -> 60 [] p = "3s" -> 3
       [] p = "60s" -> 60 [] p = "90s" -> 90]

IsSpace(p) == p \in Space

IsWord(p) == p \in Words

IsDigits(p) == p \in DOMAIN NumValue

IsDurPiece(p) == p \in DOMAIN DurValue

IsIdentCont(p) == IsWord(p) \/ IsDigits(p) \/ IsDurPiece(p)

---------------------------------------------------------------------------
(* nom's primitive parsers and combinators                                 *)

multispace0(i) ==
  IF i # << >> /\ IsSpace(Head(i)) THEN multispace0(Tail(i)) ELSE i

multispace1(i) ==
  IF i # << >> /\ IsSpace(Head(i))
  THEN Ok(multispace0(i), " ")
  ELSE Err(i, "multispace1")

char(c, i) ==
  IF i # << >> /\ Head(i) = c THEN Ok(Tail(i), c) ELSE Err(i, "char")

tag(t, i) ==
  IF i # << >> /\ Head(i) = t THEN Ok(Tail(i), t) ELSE Err(i, "tag")

tag_no_case(t, i) ==
  IF i # << >> /\ Lower(Head(i)) = Lower(t)
  THEN Ok(Tail(i), Head(i))
  ELSE Err(i, "tag_no_case")

\* preceded(multispace0, char(c))
ws_char(c, i) == char(c, multispace0(i))

\* opt(p), r being the result of p at i: a recoverable error becomes None
\* at the original input.
opt(r, i) ==
  IF r.ok THEN Ok(r.rem, Some(r.val))
  ELSE IF r.fatal THEN r
  ELSE Ok(i, None)

\* expect(msg, p), r being the result of p at i: a recoverable error of p
\* becomes an unrecoverable one tagged msg at the input where p began.
expect(msg, r, i) ==
  IF r.ok THEN r
  ELSE IF r.fatal THEN r
  ELSE Fail(i, msg)

\* verify(msg, p, predicate), r being the result of p at i and accepted the
\* value of the predicate on it.
verify(msg, r, accepted, i) ==
  IF ~r.ok THEN r
  ELSE IF accepted THEN r
  ELSE Fail(i, msg)

\* value(v, p)
value(v, r) == IF r.ok THEN Ok(r.rem, v) ELSE r

\* alt((p, q)): q is tried when p fails recoverably.
alt(p, q) == IF p.ok \/ p.fatal THEN p ELSE q

\* tuple, pair, preceded and delimited, one element at a time: the values
\* parsed so far are kept in order, the next element is the parser named
\* nt (with its argument T) at what is left, and the first error of an
\* element is the error of the sequence.
Start(i) == Ok(i, << >>)

Push(prev, r) == IF r.ok THEN Ok(r.rem, Append(prev.val, r.val)) ELSE r

Then(prev, nt, T) == IF prev.ok THEN Push(prev, P(nt, T, prev.rem)) ELSE prev

\* The n-th value of a sequence, the others dropped (preceded, delimited).
Nth(r, n) == IF r.ok THEN Ok(r.rem, r.val[n]) ELSE r

---------------------------------------------------------------------------
(* Identifiers, strings, numbers, durations                                *)

\* The longest run of identifier-continuation pieces at the head of i.
IdentRun(i) ==
  IF i # << >> /\ IsIdentCont(Head(i))
  THEN <<Head(i)>> \o IdentRun(Tail(i))
  ELSE << >>

IsKeyword(run) == Len(run) = 1 /\ Lower(run[1]) \in Keywords

unquoted_identifier(i) ==
  IF i # << >> /\ IsWord(Head(i))
  THEN LET run == IdentRun(i)
       IN  IF IsKeyword(run) THEN Err(i, "keyword")
           ELSE Ok(SubSeq(i, Len(run) + 1, Len(i)), run)
  ELSE Err(i, "identifier")

\* The body of a quoted string after its opening quote q: pieces up to the
\* closing q, a backslash taking the next piece from escs literally
\* ("n" standing for the newline).
QuotedBody(q, escs, i) ==
  IF i = << >> THEN Err(i, "unterminated")
  ELSE IF Head(i) = q THEN Ok(Tail(i), << >>)
  ELSE IF Head(i) = "\\"
    THEN IF Len(i) >= 2 /\ i[2] \in escs
         THEN LET r == QuotedBody(q, escs, Tail(Tail(i)))
                  c == IF i[2] = "n" THEN "\n" ELSE i[2]
              IN  IF r.ok THEN Ok(r.rem, <<c>> \o r.val) ELSE r
         ELSE Err(i, "escape")
  ELSE LET r == QuotedBody(q, escs, Tail(i))
       IN  IF r.ok THEN Ok(r.rem, <<Head(i)>> \o r.val) ELSE r

double_quoted_string(i) ==
  IF i # << >> /\ Head(i) = "\""
  THEN QuotedBody("\"", {"\"", "\\", "n"}, Tail(i))
  ELSE Err(i, "double_quoted_string")

single_quoted_string(i) ==
  IF i # << >> /\ Head(i) = "'"
  THEN QuotedBody("'", {"'", "\"", "\\", "n"}, Tail(i))
  ELSE Err(i, "single_quoted_string")

regex(i) ==
  IF i # << >> /\ Head(i) = "/"
  THEN QuotedBody("/", {"/"}, Tail(i))
  ELSE Err(i, "regex")

identifier(i) == alt(unquoted_identifier(i), double_quoted_string(i))

\* write_escaped!(f, s, c => "\\c", ...): every piece of s in escs is
\* written with a backslash before it, the newline as backslash n.
WriteEscaped(s, escs) ==
  IF s = << >> THEN << >>
  ELSE (IF Head(s) \in escs
        THEN <<"\\", IF Head(s) = "\n" THEN "n" ELSE Head(s)>>
        ELSE <<Head(s)>>) \o WriteEscaped(Tail(s), escs)

\* Display of an Identifier: bare when it reads back as a bare identifier,
\* double-quoted otherwise.
IdentifierDisplay(name) ==
  LET u == unquoted_identifier(name)
  IN  IF u.ok /\ u.rem = << >> THEN name
      ELSE <<"\"">> \o WriteEscaped(name, {"\n", "\\", "\""}) \o <<"\"">>

unsigned_integer(i) ==
  IF i # << >> /\ IsDigits(Head(i))
  THEN Ok(Tail(i), NumValue[Head(i)])
  ELSE Err(i, "unsigned_integer")

\* A duration literal: one or more <integer><unit> components, summed.
duration_more(acc, i) ==
  IF i # << >> /\ IsDurPiece(Head(i))
  THEN duration_more(acc + DurValue[Head(i)], Tail(i))
  ELSE Ok(i, acc)

duration(i) ==
  IF i # << >> /\ IsDurPiece(Head(i))
  THEN duration_more(0, i)
  ELSE Err(i, "duration")

\* Display of a duration: minutes then seconds, largest unit first.
DurationDisplay(d) ==
  IF d = 0 THEN <<"0s">>
  ELSE (IF d \div 60 > 0 THEN <<ToString(d \div 60) \o "m">> ELSE << >>)
       \o (IF d % 60 > 0 THEN <<ToString(d % 60) \o "s">> ELSE << >>)

---------------------------------------------------------------------------
(* Expressions                                                             *)

VarRef(name, data_type) ==
  [kind |-> "VarRef", name |-> name, data_type |-> data_type]

BindParameter(name) == [kind |-> "BindParameter", param |-> name]

\* Literal::Duration, Integer, String and Regex
Literal(type, v) ==
  CASE type = "Duration" -> [type |-> "Duration", secs |-> v]
    [] type = "Integer" -> [type |-> "Integer", int |-> v]
    [] type = "String" -> [type |-> "String", str |-> v]
    [] type = "Regex" -> [type |-> "Regex", re |-> v]

\* Expr::Literal
ExprLiteral(l) == [kind |-> "Literal", lit |-> l]

Wildcard(wtype) == [kind |-> "Wildcard", wtype |-> wtype]

Distinct(name) == [kind |-> "Distinct", ident |-> name]

Call(name, args) == [kind |-> "Call", name |-> name, args |-> args]

Binary(lhs, op, rhs) == [kind |-> "Binary", lhs |-> lhs, op |-> op, rhs |-> rhs]

Nested(e) == [kind |-> "Nested", inner |-> e]

\* Expr::UnaryOp(UnaryOperator::Minus, e)
UnaryMinus(e) == [kind |-> "UnaryOp", op |-> "-", operand |-> e]

\* map(p, Literal::<type>)
map_Literal(type, r) == IF r.ok THEN Ok(r.rem, Literal(type, r.val)) ELSE r

\* map(p, Expr::<ctor>)
map_Expr(ctor, r) ==
  IF ~r.ok THEN r
  ELSE Ok(r.rem,
          CASE ctor = "Literal" -> ExprLiteral(r.val)
            [] ctor = "Wildcard" -> Wildcard(r.val)
            [] ctor = "Distinct" -> Distinct(r.val)
            [] ctor = "BindParameter" -> BindParameter(r.val)
            [] ctor = "Nested" -> Nested(r.val)
            [] ctor = "UnaryOp" -> UnaryMinus(r.val)
            [] ctor = "Call" -> Call(r.val[1], r.val[3]))

\* The binary operators of each precedence level, lowest first.
Ops(n) ==
  CASE n = 1 -> {"|"} [] n = 2 -> {"^"} [] n = 3 -> {"&"}
    [] n = 4 -> {"+", "-"} [] n = 5 -> {"*", "/", "%"}

\* The precedence level of the binary operator op.
Precedence(op) == CHOOSE n \in 1..5 : op \in Ops(n)

VarRefDataTypes ==
  {"float", "integer", "unsigned", "string", "boolean", "tag", "field"}

\* var_ref ::= identifier ( "::" data_type )?
var_ref_type(n) ==
  IF ~n.ok THEN n
  ELSE IF Len(n.rem) >= 2 /\ n.rem[1] = "::"
            /\ Lower(n.rem[2]) \in VarRefDataTypes
       THEN Ok(Tail(Tail(n.rem)), VarRef(n.val, Some(Lower(n.rem[2]))))
       ELSE Ok(n.rem, VarRef(n.val, None))

var_ref(i) == var_ref_type(identifier(i))

\* parameter ::= "$" identifier
parameter(i) == Nth(Then(Then(Start(i), "char", "$"), "identifier", ""), 2)

\* literal: a duration, an integer, a single-quoted string or a regex.
literal(i) ==
  alt(map_Literal("Duration", duration(i)),
      alt(map_Literal("Integer", unsigned_integer(i)),
          alt(map_Literal("String", single_quoted_string(i)),
              map_Literal("Regex", regex(i)))))

\* is_valid_now_call: a call of now with no arguments.
is_valid_now_call(e) ==
  e.kind = "Call" /\ Len(e.name) = 1 /\ Lower(e.name[1]) = "now"
    /\ e.args = << >>

\* An operand of the interval that may be any literal.
TimeCallIntervalArgument_operandAny(i) ==
  map_Expr("Literal", literal(multispace0(i)))

\* An operand of the interval whose duration is not guarded by expect.
TimeCallIntervalArgument_operandUnguarded(i) ==
  map_Expr("Literal", map_Literal("Duration", duration(multispace0(i))))

\* Used to parse the interval argument of the TIME function.
TimeCallIntervalArgument_operand(i) ==
  map_Expr("Literal",
           map_Literal("Duration",
                       expect("invalid TIME call, expected duration",
                              duration(multispace0(i)), multispace0(i))))

\* TimeCallOffsetArgument::now_call
verify_now_call(c, i) ==
  verify("invalid expression, the only valid function call is 'now' with no arguments",
         c, c.ok /\ is_valid_now_call(c.val), i)

\* A now_call that accepts every call expression.
now_call_unverified(i) == P("call_expression", "TimeCallOffsetArgument", i)

now_call(i) ==
  verify_now_call(P("call_expression", "TimeCallOffsetArgument", i), i)

TimeCallOffsetArgument_alt(j) ==
  alt(now_call(j),
      alt(map_Expr("Literal", map_Literal("Duration", duration(j))),
          map_Expr("Literal", map_Literal("String", single_quoted_string(j)))))

TimeCallOffsetArgument_operand(i) == TimeCallOffsetArgument_alt(multispace0(i))

\* wildcard ::= "*" ( "::" ("field" | "tag") )?
wildcard_type(i) ==
  alt(value("Tag", tag_no_case("tag", i)),
      value("Field", tag_no_case("field", i)))

wildcard_type_specifier(i) ==
  Nth(Then(Then(Start(i), "tag", "::"),
           "expect", <<"invalid wildcard type specifier, expected TAG or FIELD",
                       "wildcard_type", "">>),
      2)

wildcard(i) ==
  Nth(Then(Then(Start(i), "char", "*"),
           "opt", <<"wildcard_type_specifier", "">>),
      2)

\* DISTINCT identifier
\* DISTINCT identifier, the identifier not guarded by expect.
distinct_expression_unguarded(j) ==
  map_Expr("Distinct",
           Nth(Then(Then(Then(Start(j), "tag_no_case", "DISTINCT"),
                         "multispace1", ""),
                    "identifier", ""),
               3))

distinct_expression(j) ==
  map_Expr("Distinct",
           Nth(Then(Then(Then(Start(j), "tag_no_case", "DISTINCT"),
                         "multispace1", ""),
                    "expect", <<"invalid DISTINCT expression, expected identifier",
                                "identifier", "">>),
               3))

FieldExpression_alt(j) ==
  alt(distinct_expression(j),
      alt(map_Expr("Wildcard", wildcard(j)),
          alt(map_Expr("Literal", literal(j)),
              alt(P("call_expression", "FieldExpression", j),
                  alt(var_ref(j),
                      map_Expr("BindParameter", parameter(j)))))))

FieldExpression_operand(i) == FieldExpression_alt(multispace0(i))

\* The operand grammar of the projection used for every T.
operand_FieldExpression(T, i) == FieldExpression_operand(i)

\* ArithmeticParsers::operand of the operand grammar T
operand(T, i) ==
  CASE T = "TimeCallIntervalArgument" -> TimeCallIntervalArgument_operand(i)
    [] T = "TimeCallOffsetArgument" -> TimeCallOffsetArgument_operand(i)
    [] T = "FieldExpression" -> FieldExpression_operand(i)

\* A parenthesised expression
parens(T, i) ==
  map_Expr("Nested",
           Nth(Then(Then(Then(Start(i), "ws_char", "("), "arithmetic", T),
                    "ws_char", ")"),
               2))

\* unary ::= "-" factor
unary(T, i) ==
  map_Expr("UnaryOp", Nth(Then(Then(Start(i), "ws_char", "-"), "factor", T), 2))

\* A negated factor, a parenthesised expression, or an operand of T.
factor(T, i) == alt(unary(T, i), alt(parens(T, i), operand(T, i)))

\* The operators of level n and higher and their right operands, folded to
\* the left: r is the right operand parsed after the operator at the head
\* of j.
arith_rest_fold(T, n, left, i, j, r) ==
  IF r.ok THEN P("arith_rest", <<T, n, Binary(left, Head(j), r.val)>>, r.rem)
  ELSE IF r.fatal THEN r
  ELSE Ok(i, left)

arith_rest_at(T, n, left, i, j) ==
  IF j # << >> /\ (\E m \in n..5 : Head(j) \in Ops(m))
  THEN arith_rest_fold(T, n, left, i, j,
         P("arith_level", <<T, Precedence(Head(j)) + 1>>, Tail(j)))
  ELSE Ok(i, left)

arith_rest(T, n, left, i) == arith_rest_at(T, n, left, i, multispace0(i))

arith_level_rest(T, n, l) ==
  IF l.ok THEN P("arith_rest", <<T, n, l.val>>, l.rem) ELSE l

\* The precedence climber at level n: a factor, then the operators of
\* level n and higher, each with a right operand of the levels above its
\* own.
arith_level(T, n, i) == arith_level_rest(T, n, factor(T, i))

\* arithmetic::<T>
arithmetic(T, i) == P("arith_level", <<T, 1>>, i)

\* The arguments of a call after the first, each after a ','; a is the
\* next argument with its ','.
call_args_fold(T, acc, i, a) ==
  IF a.ok THEN P("call_args_more", <<T, Append(acc, a.val)>>, a.rem)
  ELSE IF a.fatal THEN a
  ELSE Ok(i, acc)

call_args_more(T, acc, i) ==
  call_args_fold(T, acc, i,
                 Nth(Then(Then(Start(i), "ws_char", ","), "arithmetic", T), 2))

call_args_first(T, i, a) ==
  IF a.ok THEN P("call_args_more", <<T, <<a.val>>>>, a.rem)
  ELSE IF a.fatal THEN a
  ELSE Ok(i, << >>)

\* The arguments of a call: none, or expressions separated by ','.
call_args(T, i) == call_args_first(T, i, arithmetic(T, i))

\* call ::= identifier "(" ( expr ( "," expr )* )? ")"
call_expression(T, i) ==
  map_Expr("Call",
           Then(Then(Then(Then(Start(i), "unquoted_identifier", ""),
                          "char", "("),
                     "call_args", T),
                "ws_char", ")"))

---------------------------------------------------------------------------
(* GROUP BY dimensions                                                     *)

DimTime(interval, offset) ==
  [kind |-> "Time", interval |-> interval, offset |-> offset]

DimTag(name) == [kind |-> "Tag", tag |-> name]

DimRegex(re) == [kind |-> "Regex", re |-> re]

DimWildcard == [kind |-> "Wildcard"]

\* preceded(preceded(multispace0, char(',')),
\*          preceded(multispace0, arithmetic::<TimeCallOffsetArgument>))
time_call_offset(i) ==
  Nth(Then(Then(Start(i), "ws_char", ","),
           "ws", <<"arithmetic", "TimeCallOffsetArgument">>),
      2)

\* |(interval, offset)| Dimension::Time { interval, offset }
map_DimTime(r) == IF r.ok THEN Ok(r.rem, DimTime(r.val[3], r.val[4])) ELSE r

\* A TIME call whose '(' and ')' carry each other's message.
time_call_expression_swapped(i) ==
  map_DimTime(
    Then(Then(Then(Then(Then(Start(i),
      "tag_no_case", "TIME"),
      "expect", <<"invalid TIME call, expected ')'", "ws_char", "(">>),
      "expect", <<"invalid TIME call, expected a duration for the interval",
                  "arithmetic", "TimeCallIntervalArgument">>),
      "opt", <<"time_call_offset", "">>),
      "expect", <<"invalid TIME call, expected 1 or 2 arguments", "ws_char", ")">>))

\* A TIME call whose ')' is not guarded by expect.
time_call_expression_unguarded(i) ==
  map_DimTime(
    Then(Then(Then(Then(Then(Start(i),
      "tag_no_case", "TIME"),
      "expect", <<"invalid TIME call, expected 1 or 2 arguments", "ws_char", "(">>),
      "expect", <<"invalid TIME call, expected a duration for the interval",
                  "arithmetic", "TimeCallIntervalArgument">>),
      "opt", <<"time_call_offset", "">>),
      "ws_char", ")"))

time_call_expression(i) ==
  map_DimTime(
    Then(Then(Then(Then(Then(Start(i),
      "tag_no_case", "TIME"),
      "expect", <<"invalid TIME call, expected 1 or 2 arguments", "ws_char", "(">>),
      "expect", <<"invalid TIME call, expected a duration for the interval",
                  "arithmetic", "TimeCallIntervalArgument">>),
      "opt", <<"time_call_offset", "">>),
      "expect", <<"invalid TIME call, expected ')'", "ws_char", ")">>))

\* map(regex, Self::Regex) and map(var_ref, |v| Self::Tag(name of v))
map_Dimension(ctor, r) ==
  IF ~r.ok THEN r
  ELSE Ok(r.rem,
          CASE ctor = "Regex" -> DimRegex(r.val)
            [] ctor = "Tag" -> DimTag(r.val.name))

\* Dimension::parse keeping the type of the wildcard it parsed.
map_DimWildcardTyped(r) ==
  IF r.ok THEN Ok(r.rem, [kind |-> "Wildcard", wtype |-> r.val]) ELSE r

Dimension_parse_typed(i) ==
  alt(map_DimWildcardTyped(wildcard(i)),
      alt(time_call_expression(i),
          alt(map_Dimension("Regex", regex(i)),
              map_Dimension("Tag", var_ref(i)))))

Dimension_parse(i) ==
  alt(value(DimWildcard, wildcard(i)),
      alt(time_call_expression(i),
          alt(map_Dimension("Regex", regex(i)),
              map_Dimension("Tag", var_ref(i)))))

---------------------------------------------------------------------------
(* The clauses shared with other statements (crate::common)                *)

\* OneOrMore<T>::separated_list1(msg): items of kind T separated by ','
\* (whitespace allowed before the ',' and before each item); e is the next
\* item with its ','.
separated_list1_fold(T, acc, i, e) ==
  IF e.ok THEN P("separated_list1_more", <<T, Append(acc, e.val)>>, e.rem)
  ELSE IF e.fatal THEN e
  ELSE Ok(i, acc)

separated_list1_more(T, acc, i) ==
  separated_list1_fold(T, acc, i,
    Nth(Then(Then(Start(i), "ws_char", ","), "ws", <<"parse", T>>), 2))

separated_list1_first(T, first) ==
  IF first.ok THEN P("separated_list1_more", <<T, <<first.val>>>>, first.rem)
  ELSE first

separated_list1(msg, T, i) ==
  expect(msg, separated_list1_first(T, P("parse", T, multispace0(i))), i)

\* MeasurementSelection::Name and MeasurementSelection::Subquery
map_MeasurementSelection(ctor, r) ==
  IF ~r.ok THEN r
  ELSE Ok(r.rem,
          CASE ctor = "Name" -> [kind |-> "Name", name |-> r.val]
            [] ctor = "NameRegex" -> [kind |-> "NameRegex", re |-> r.val]
            [] ctor = "Subquery" -> [kind |-> "Subquery", select |-> r.val])

\* qualified_measurement_name: an identifier or a regular expression.
qualified_measurement_name(i) ==
  alt(map_MeasurementSelection("Name", identifier(i)),
      map_MeasurementSelection("NameRegex", regex(i)))

\* The operand of a condition: a literal or a variable reference.
ConditionalOperand_alt(j) == alt(map_Expr("Literal", literal(j)), var_ref(j))

ConditionalOperand(i) == ConditionalOperand_alt(multispace0(i))

ComparisonOps == {"=", "!=", "<>", "<", "<=", ">", ">=", "=~", "!~"}

comparison_operator(j) ==
  IF j # << >> /\ Head(j) \in ComparisonOps
  THEN Ok(Tail(j), Head(j))
  ELSE Err(j, "comparison")

map_ConditionalExpression(r) ==
  IF r.ok THEN Ok(r.rem, [lhs |-> r.val[1], op |-> r.val[2], rhs |-> r.val[3]])
  ELSE r

\* conditional_expression: a comparison of two operands.
conditional_expression(i) ==
  map_ConditionalExpression(
    Then(Then(Then(Start(i), "ConditionalOperand", ""),
              "ws", <<"comparison_operator", "">>),
         "ConditionalOperand", ""))

\* where_clause ::= "WHERE" S condition
where_clause(i) ==
  Nth(Then(Then(Then(Start(i), "tag_no_case", "WHERE"), "multispace1", ""),
           "conditional_expression", ""),
      3)

order_direction(i) ==
  alt(value("Ascending", tag_no_case("ASC", i)),
      value("Descending", tag_no_case("DESC", i)))

\* S "TIME"
order_by_time(i) ==
  Nth(Then(Then(Start(i), "multispace1", ""), "tag_no_case", "TIME"), 2)

\* order_by_clause ::= "ORDER" S "BY" ( S "TIME" )? S ( "ASC" | "DESC" )
order_by_clause(i) ==
  Nth(Then(Then(Then(Then(Then(Then(Start(i),
        "tag_no_case", "ORDER"),
        "multispace1", ""),
        "tag_no_case", "BY"),
        "opt", <<"order_by_time", "">>),
        "multispace1", ""),
        "order_direction", ""),
      6)

\* "<keyword>" S unsigned_integer, the number guarded by expect(msg, _)
keyword_unsigned_integer(kw, msg, i) ==
  Nth(Then(Then(Then(Start(i), "tag_no_case", kw), "multispace1", ""),
           "expect", <<msg, "unsigned_integer", "">>),
      3)

\* limit_clause ::= "LIMIT" S unsigned_integer
limit_clause(i) ==
  keyword_unsigned_integer("LIMIT",
    "invalid LIMIT clause, expected unsigned integer", i)

\* offset_clause ::= "OFFSET" S unsigned_integer
offset_clause(i) ==
  keyword_unsigned_integer("OFFSET",
    "invalid OFFSET clause, expected unsigned integer", i)

\* number ::= signed integer | signed float
number(i) ==
  LET neg == i # << >> /\ Head(i) = "-"
      n   == unsigned_integer(IF neg THEN Tail(i) ELSE i)
  IN  IF ~n.ok THEN Err(i, "number")
      ELSE IF Len(n.rem) >= 2 /\ n.rem[1] = "." /\ IsDigits(n.rem[2])
           THEN Ok(Tail(Tail(n.rem)),
                   [type |-> "Float", neg |-> neg, whole |-> n.val,
                    frac |-> n.rem[2]])
           ELSE Ok(n.rem, [type |-> "Integer", neg |-> neg, int |-> n.val])

---------------------------------------------------------------------------
(* The SELECT statement                                                    *)

\* preceded(delimited(multispace1, tag_no_case("AS"), multispace1),
\*          expect(.., identifier))
field_alias(i) ==
  Nth(Then(Then(Then(Then(Start(i), "multispace1", ""), "tag_no_case", "AS"),
                "multispace1", ""),
           "expect", <<"invalid field alias, expected identifier",
                       "identifier", "">>),
      4)

\* |(expr, alias)| Field { expr, alias }
map_Field(r) ==
  IF r.ok THEN Ok(r.rem, [expr |-> r.val[1], alias |-> r.val[2]]) ELSE r

Field_parse(i) ==
  map_Field(Then(Then(Start(i), "arithmetic", "FieldExpression"),
                 "opt", <<"field_alias", "">>))

field_list(i) ==
  separated_list1("invalid SELECT statement, expected field", "Field", i)

\* A FROM clause whose list may be empty (separated_list0).
from_clause0(i) ==
  LET r == Nth(Then(Then(Then(Start(i), "tag_no_case", "FROM"), "multispace1", ""),
                    "separated_list1", <<"no item", "Measurement">>),
               3)
  IN  IF ~r.ok /\ r.fatal /\ r.msg = "no item" THEN Ok(r.at, << >>) ELSE r

\* A FROM clause written from the GROUP BY clause, its message left as it was.
from_clause_pasted(i) ==
  Nth(Then(Then(Then(Start(i), "tag_no_case", "FROM"), "multispace1", ""),
           "separated_list1",
           <<"invalid GROUP BY clause, expected wildcard, TIME, identifier or regular expression",
             "Measurement">>),
      3)

from_clause(i) ==
  Nth(Then(Then(Then(Start(i), "tag_no_case", "FROM"), "multispace1", ""),
           "separated_list1",
           <<"invalid FROM clause, expected identifier, regular expression or subquery",
             "Measurement">>),
      3)

group_by_clause(i) ==
  Nth(Then(Then(Then(Then(Then(Start(i),
        "tag_no_case", "GROUP"),
        "multispace1", ""),
        "expect", <<"invalid GROUP BY clause, expected BY", "tag_no_case", "BY">>),
        "multispace1", ""),
        "separated_list1",
        <<"invalid GROUP BY clause, expected wildcard, TIME, identifier or regular expression",
          "Dimension">>),
      5)

\* FillOption::Value
map_FillValue(r) ==
  IF r.ok THEN Ok(r.rem, [fill |-> "Value", num |-> r.val]) ELSE r

\* The alternatives of a FILL option.
fill_option(i) ==
  alt(value([fill |-> "Null"], tag_no_case("NULL", i)),
      alt(value([fill |-> "None"], tag_no_case("NONE", i)),
          alt(map_FillValue(number(i)),
              alt(value([fill |-> "Previous"], tag_no_case("PREVIOUS", i)),
                  value([fill |-> "Linear"], tag_no_case("LINEAR", i))))))

\* A FILL clause whose '(' is guarded by expect.
fill_clause_guarded(i) ==
  Nth(Then(Then(Then(Then(Start(i),
        "tag_no_case", "FILL"),
        "expect", <<"invalid FILL clause, expected (", "ws_char", "(">>),
        "expect",
        <<"invalid FILL option, expected NULL, NONE, PREVIOUS, LINEAR, or a number",
          "ws", <<"fill_option", "">>>>),
        "ws_char", ")"),
      3)

fill_clause(i) ==
  Nth(Then(Then(Then(Then(Start(i),
        "tag_no_case", "FILL"),
        "ws_char", "("),
        "expect",
        <<"invalid FILL option, expected NULL, NONE, PREVIOUS, LINEAR, or a number",
          "ws", <<"fill_option", "">>>>),
        "ws_char", ")"),
      3)

slimit_clause(i) ==
  keyword_unsigned_integer("SLIMIT",
    "invalid SLIMIT clause, expected unsigned integer", i)

\* A SOFFSET clause with a message of its own.
soffset_clause_own(i) ==
  keyword_unsigned_integer("SOFFSET",
    "invalid SOFFSET clause, expected unsigned integer", i)

soffset_clause(i) ==
  keyword_unsigned_integer("SOFFSET",
    "invalid SLIMIT clause, expected unsigned integer", i)

timezone_clause(i) ==
  Nth(Then(Then(Then(Then(Start(i),
        "tag_no_case", "TZ"),
        "ws_char", "("),
        "expect", <<"invalid TZ clause, expected string",
                    "ws", <<"single_quoted_string", "">>>>),
        "ws_char", ")"),
      3)

\* preceded(multispace1, clause): the clause named c, after whitespace
spaced(c, i) == Nth(Then(Then(Start(i), "multispace1", ""), c, ""), 2)

\* A SelectStatement that does not keep an ascending ORDER BY.
SelectStatement_AscendingDropped(v) ==
  [fields |-> v[3], from |-> v[4], condition |-> v[5], group_by |-> v[6],
   fill_option |-> v[7],
   order_by |-> IF v[8] = Some("Ascending") THEN None ELSE v[8],
   limit |-> v[9], offset |-> v[10],
   series_limit |-> v[11], series_offset |-> v[12], timezone |-> v[13]]

\* A SelectStatement with the LIMIT and OFFSET values in each other's field.
SelectStatement_swapped(v) ==
  [fields |-> v[3], from |-> v[4], condition |-> v[5], group_by |-> v[6],
   fill_option |-> v[7], order_by |-> v[8], limit |-> v[10], offset |-> v[9],
   series_limit |-> v[11], series_offset |-> v[12], timezone |-> v[13]]

SelectStatement(v) ==
  [fields |-> v[3], from |-> v[4], condition |-> v[5], group_by |-> v[6],
   fill_option |-> v[7], order_by |-> v[8], limit |-> v[9], offset |-> v[10],
   series_limit |-> v[11], series_offset |-> v[12], timezone |-> v[13]]

map_SelectStatement(r) == IF r.ok THEN Ok(r.rem, SelectStatement(r.val)) ELSE r

\* The first four elements of select_statement's tuple: SELECT, whitespace,
\* the field list and the FROM clause.
select_from(i) ==
  Then(Then(Then(Then(Start(i),
    "tag_no_case", "SELECT"),
    "multispace1", ""),
    "field_list", ""),
    "spaced", "from_clause")

\* The next two elements of the tuple: the WHERE and GROUP BY clauses.
select_where_group(prev) ==
  IF ~prev.ok THEN prev
  ELSE Then(Then(prev,
         "opt", <<"spaced", "where_clause">>),
         "opt", <<"spaced", "group_by_clause">>)

\* The rest of the tuple: the optional clauses from FILL on.
select_clauses(prev) ==
  IF ~prev.ok THEN prev
  ELSE
    Then(Then(Then(Then(Then(Then(Then(prev,
      "opt", <<"spaced", "fill_clause">>),
      "opt", <<"spaced", "order_by_clause">>),
      "opt", <<"spaced", "limit_clause">>),
      "opt", <<"spaced", "offset_clause">>),
      "opt", <<"spaced", "slimit_clause">>),
      "opt", <<"spaced", "soffset_clause">>),
      "opt", <<"spaced", "timezone_clause">>)

select_statement(i) ==
  map_SelectStatement(select_clauses(select_where_group(select_from(i))))

\* delimited(preceded(multispace0, char('(')),
\*           preceded(multispace0, select_statement),
\*           preceded(multispace0, char(')')))
subquery(i) ==
  Nth(Then(Then(Then(Start(i), "ws_char", "("),
                "ws", <<"select_statement", "">>),
           "ws_char", ")"),
      2)

MeasurementSelection_parse(i) ==
  alt(qualified_measurement_name(i),
      map_MeasurementSelection("Subquery", subquery(i)))

\* The parser named nt applied to i, T being its type parameter or the
\* arguments it is built from.
P(nt, T, i) ==
  CASE nt = "tag_no_case" -> tag_no_case(T, i)
    [] nt = "tag" -> tag(T, i)
    [] nt = "char" -> char(T, i)
    [] nt = "ws_char" -> ws_char(T, i)
    [] nt = "multispace1" -> multispace1(i)
    [] nt = "opt" -> opt(P(T[1], T[2], i), i)
    [] nt = "expect" -> expect(T[1], P(T[2], T[3], i), i)
    [] nt = "ws" -> P(T[1], T[2], multispace0(i))
    [] nt = "spaced" -> spaced(T, i)
    [] nt = "identifier" -> identifier(i)
    [] nt = "unquoted_identifier" -> unquoted_identifier(i)
    [] nt = "unsigned_integer" -> unsigned_integer(i)
    [] nt = "single_quoted_string" -> single_quoted_string(i)
    [] nt = "wildcard_type" -> wildcard_type(i)
    [] nt = "wildcard_type_specifier" -> wildcard_type_specifier(i)
    [] nt = "arithmetic" -> arithmetic(T, i)
    [] nt = "factor" -> factor(T, i)
    [] nt = "arith_level" -> arith_level(T[1], T[2], i)
    [] nt = "arith_rest" -> arith_rest(T[1], T[2], T[3], i)
    [] nt = "call_expression" -> call_expression(T, i)
    [] nt = "call_args" -> call_args(T, i)
    [] nt = "call_args_more" -> call_args_more(T[1], T[2], i)
    [] nt = "time_call_offset" -> time_call_offset(i)
    [] nt = "time_call_expression" -> time_call_expression(i)
    [] nt = "separated_list1" -> separated_list1(T[1], T[2], i)
    [] nt = "separated_list1_more" -> separated_list1_more(T[1], T[2], i)
    [] nt = "parse" /\ T = "Field" -> Field_parse(i)
    [] nt = "parse" /\ T = "Measurement" -> MeasurementSelection_parse(i)
    [] nt = "parse" /\ T = "Dimension" -> Dimension_parse(i)
    [] nt = "ConditionalOperand" -> ConditionalOperand(i)
    [] nt = "comparison_operator" -> comparison_operator(i)
    [] nt = "conditional_expression" -> conditional_expression(i)
    [] nt = "order_by_time" -> order_by_time(i)
    [] nt = "order_direction" -> order_direction(i)
    [] nt = "fill_option" -> fill_option(i)
    [] nt = "field_alias" -> field_alias(i)
    [] nt = "field_list" -> field_list(i)
    [] nt = "from_clause" -> from_clause(i)
    [] nt = "where_clause" -> where_clause(i)
    [] nt = "group_by_clause" -> group_by_clause(i)
    [] nt = "fill_clause" -> fill_clause(i)
    [] nt = "order_by_clause" -> order_by_clause(i)
    [] nt = "limit_clause" -> limit_clause(i)
    [] nt = "offset_clause" -> offset_clause(i)
    [] nt = "slimit_clause" -> slimit_clause(i)
    [] nt = "soffset_clause" -> soffset_clause(i)
    [] nt = "timezone_clause" -> timezone_clause(i)
    [] nt = "select_statement" -> select_statement(i)

---------------------------------------------------------------------------
(* The Display implementations                                             *)

LiteralDisplay(l) ==
  CASE l.type = "Duration" -> DurationDisplay(l.secs)
    [] l.type = "Integer" -> <<ToString(l.int)>>
    [] l.type = "String" ->
         <<"'">> \o WriteEscaped(l.str, {"\n", "\\", "'", "\""}) \o <<"'">>
    [] l.type = "Regex" -> <<"/">> \o WriteEscaped(l.re, {"/"}) \o <<"/">>

ExprListDisplay(es) ==
  IF es = << >> THEN << >>
  ELSE IF Len(es) = 1 THEN D("Expr", es[1])
  ELSE D("Expr", es[1]) \o <<",", " ">> \o D("ExprList", Tail(es))

ExprDisplay(e) ==
  CASE e.kind = "VarRef" ->
         IdentifierDisplay(e.name)
           \o (IF IsSome(e.data_type) THEN <<"::", e.data_type[1]>> ELSE << >>)
    [] e.kind = "BindParameter" -> <<"$">> \o IdentifierDisplay(e.param)
    [] e.kind = "Literal" -> LiteralDisplay(e.lit)
    [] e.kind = "Wildcard" ->
         <<"*">> \o (IF e.wtype = Some("Tag") THEN <<"::", "tag">>
                     ELSE IF e.wtype = Some("Field") THEN <<"::", "field">>
                     ELSE << >>)
    [] e.kind = "Distinct" -> <<"DISTINCT", " ">> \o IdentifierDisplay(e.ident)
    [] e.kind = "Call" -> e.name \o <<"(">> \o D("ExprList", e.args) \o <<")">>
    [] e.kind = "Binary" ->
         D("Expr", e.lhs) \o <<" ", e.op, " ">> \o D("Expr", e.rhs)
    [] e.kind = "Nested" -> <<"(">> \o D("Expr", e.inner) \o <<")">>
    [] e.kind = "UnaryOp" -> <<e.op>> \o D("Expr", e.operand)

DimensionDisplay(d) ==
  CASE d.kind = "Time" ->
         IF IsSome(d.offset)
         THEN <<"TIME", "(">> \o D("Expr", d.interval) \o <<",", " ">>
                \o D("Expr", d.offset[1]) \o <<")">>
         ELSE <<"TIME", "(">> \o D("Expr", d.interval) \o <<")">>
    [] d.kind = "Tag" -> IdentifierDisplay(d.tag)
    [] d.kind = "Regex" -> <<"/">> \o WriteEscaped(d.re, {"/"}) \o <<"/">>
    [] d.kind = "Wildcard" -> <<"*">>

ConditionDisplay(c) ==
  D("Expr", c.lhs) \o <<" ", c.op, " ">> \o D("Expr", c.rhs)

NumberDisplay(n) ==
  (IF n.neg THEN <<"-">> ELSE << >>)
    \o (IF n.type = "Float" THEN <<ToString(n.whole), ".", n.frac>>
        ELSE <<ToString(n.int)>>)

FieldDisplay(f) ==
  D("Expr", f.expr)
    \o (IF IsSome(f.alias)
        THEN <<" ", "AS", " ">> \o IdentifierDisplay(f.alias[1])
        ELSE << >>)

FillOptionDisplay(o) ==
  CASE o.fill = "Null" -> <<"NULL">>
    [] o.fill = "None" -> <<"NONE">>
    [] o.fill = "Value" -> NumberDisplay(o.num)
    [] o.fill = "Previous" -> <<"PREVIOUS">>
    [] o.fill = "Linear" -> <<"LINEAR">>

MeasurementSelectionDisplay(m) ==
  CASE m.kind = "Name" -> IdentifierDisplay(m.name)
    [] m.kind = "NameRegex" -> <<"/">> \o WriteEscaped(m.re, {"/"}) \o <<"/">>
    [] m.kind = "Subquery" -> <<"(">> \o D("SelectStatement", m.select) \o <<")">>

\* Display of OneOrMore<T>: the items separated by ", "
ListDisplay(T, xs) ==
  IF xs = << >> THEN << >>
  ELSE IF Len(xs) = 1 THEN D(T, xs[1])
  ELSE D(T, xs[1]) \o <<",", " ">> \o ListDisplay(T, Tail(xs))

\* The ORDER BY clause written for both directions.
OrderByDisplay_both(order_by) ==
  IF order_by = Some("Descending")
  THEN <<" ", "ORDER", " ", "BY", " ", "TIME", " ", "DESC">>
  ELSE IF order_by = Some("Ascending")
  THEN <<" ", "ORDER", " ", "BY", " ", "TIME", " ", "ASC">>
  ELSE << >>

\* if let Some(OrderByClause::Descending) = &self.order_by
OrderByDisplay(order_by) ==
  IF order_by = Some("Descending")
  THEN <<" ", "ORDER", " ", "BY", " ", "TIME", " ", "DESC">>
  ELSE << >>

\* The TZ clause written without escapes.
TimezoneDisplay_raw(timezone) ==
  IF IsSome(timezone)
  THEN <<" ", "TZ", "(", "'">> \o timezone[1] \o <<"'", ")">>
  ELSE << >>

\* if let Some(tz) = &self.timezone
TimezoneDisplay(timezone) ==
  IF IsSome(timezone)
  THEN <<" ", "TZ", "(", "'">>
         \o WriteEscaped(timezone[1], {"\n", "\\", "'", "\""})
         \o <<"'", ")">>
  ELSE << >>

SelectDisplay(s) ==
  <<"SELECT", " ">> \o ListDisplay("Field", s.fields)
    \o <<" ", "FROM", " ">> \o ListDisplay("Measurement", s.from)
    \o (IF IsSome(s.condition)
        THEN <<" ", "WHERE", " ">> \o ConditionDisplay(s.condition[1])
        ELSE << >>)
    \o (IF IsSome(s.group_by)
        THEN <<" ", "GROUP", " ", "BY", " ">>
               \o ListDisplay("Dimension", s.group_by[1])
        ELSE << >>)
    \o (IF IsSome(s.fill_option)
        THEN <<" ", "FILL", "(">> \o FillOptionDisplay(s.fill_option[1]) \o <<")">>
        ELSE << >>)
    \o OrderByDisplay(s.order_by)
    \o (IF IsSome(s.limit) THEN <<" ", "LIMIT", " ", ToString(s.limit[1])>> ELSE << >>)
    \o (IF IsSome(s.offset) THEN <<" ", "OFFSET", " ", ToString(s.offset[1])>> ELSE << >>)
    \o (IF IsSome(s.series_limit)
        THEN <<" ", "SLIMIT", " ", ToString(s.series_limit[1])>>
        ELSE << >>)
    \o (IF IsSome(s.series_offset)
        THEN <<" ", "SOFFSET", " ", ToString(s.series_offset[1])>>
        ELSE << >>)
    \o TimezoneDisplay(s.timezone)

\* The Display implementations that call one another, by type.
D(T, x) ==
  CASE T = "Expr" -> ExprDisplay(x)
    [] T = "ExprList" -> ExprListDisplay(x)
    [] T = "Field" -> FieldDisplay(x)
    [] T = "Measurement" -> MeasurementSelectionDisplay(x)
    [] T = "Dimension" -> DimensionDisplay(x)
    [] T = "SelectStatement" -> SelectDisplay(x)

---------------------------------------------------------------------------
(* The inputs                                                              *)

\* The largest number of optional clauses typed after the FROM clause.
MaxClauses == 2

\* A piece of statement text with what it is: the slot of select_statement's
\* tuple it is written for, and whether it is well formed ("valid"), fails
\* after its keyword at a position guarded by expect ("guarded"), or fails
\* at a position that is not guarded ("unguarded").
Frag(slot, class, pieces) == [slot |-> slot, class |-> class, text |-> pieces]

\* The SELECT and FROM part of a statement as typed, and whether it is
\* well formed.
Heads ==
  { [valid |-> TRUE, text |-> <<"SELECT", " ", "v", " ", "FROM", " ", "m">>],
    [valid |-> TRUE,
     text |-> <<"select", "  ", "value", ",", "/", "f1", "/", ",", " ", "f1",
                " ", "as", " ", "\"", "a field", "\"", "\n", "from", " ",
                "foo">>],
    [valid |-> TRUE,
     text |-> <<"SELECT", " ", "sum", "(", "value", ")", " ", "FROM", " ", "(",
                "SELECT", " ", "*", " ", "FROM", " ", "cpu", " ", "LIMIT", " ",
                "05", ")", ",", "/", "cpu", "/", ",", "m">>],
    [valid |-> TRUE,
     text |-> <<"SELECT", " ", "DISTINCT", " ", "v", " ", "AS", " ", "bar", ",",
                " ", "-", "v", " ", "+", " ", "5", " ", "FROM", " ", "\"",
                "where", "\"">>],
    [valid |-> FALSE,
     text |-> <<"SELECT", " ", "v", " ", "FROM", " ", "1">>] }

ClauseFrags ==
  { Frag(1, "valid", <<" ", "WHERE", " ", "host", " ", "=~", " ", "/", "cpu", "/">>),
    Frag(1, "valid", <<" ", "where", " ", "v", "=", "'", "foo", "'">>),
    Frag(2, "valid", <<" ", "GROUP", " ", "BY", " ", "host">>),
    Frag(2, "valid", <<" ", "group", " ", "by", " ", "time", "(", "5m", ")", ",", " ", "host">>),
    Frag(2, "valid", <<" ", "GROUP", " ", "BY", " ", "TIME", "(", "1m", "3s", " ", "+",
                       " ", "60s", " ", ",", " ", "now", "(", ")", ")">>),
    Frag(2, "valid", <<" ", "GROUP", " ", "BY", " ", "*", "::", "tag", ",", "/", "cpu", "/">>),
    Frag(2, "valid", <<" ", "GROUP", " ", "BY", " ", "\"", "time", "stamp", "\"">>),
    Frag(2, "guarded", <<" ", "GROUP", " ", "time", "(", "5m", ")">>),
    Frag(2, "guarded", <<" ", "GROUP", " ", "BY", " ", "TIME", "(", "3", ")">>),
    Frag(3, "valid", <<" ", "FILL", "(", "previous", ")">>),
    Frag(3, "valid", <<" ", "fill", " ", "(", " ", "null", " ", ")">>),
    Frag(3, "valid", <<" ", "FILL", "(", "-", "05", ".", "3", ")">>),
    Frag(3, "guarded", <<" ", "FILL", "(", "foo", ")">>),
    Frag(3, "unguarded", <<" ", "FILL", " ", "null">>),
    Frag(3, "unguarded", <<" ", "FILL", "(", "null", "ify", ")">>),
    Frag(4, "valid", <<" ", "ORDER", " ", "BY", " ", "DESC">>),
    Frag(4, "valid", <<" ", "ORDER", " ", "BY", " ", "TIME", " ", "ASC">>),
    Frag(4, "valid", <<" ", "order", " ", "by", " ", "asc">>),
    Frag(5, "valid", <<" ", "LIMIT", " ", "5">>),
    Frag(6, "valid", <<" ", "OFFSET", " ", "20">>),
    Frag(7, "valid", <<" ", "SLIMIT", " ", "25">>),
    Frag(7, "guarded", <<" ", "SLIMIT", " ", "foo">>),
    Frag(8, "valid", <<"\n", "soffset", " ", "05">>),
    Frag(8, "guarded", <<" ", "SOFFSET", " ", "foo">>),
    Frag(9, "valid", <<" ", "tz", "(", "'", "Australia/Hobart", "'", ")">>),
    Frag(9, "valid", <<" ", "TZ", " ", "(", "'", "\\", "'", "\\", "n", "\\", "\\", "'", " ", ")">>),
    Frag(9, "guarded", <<" ", "TZ", "(", "foo", ")">>),
    Frag(9, "unguarded", <<" ", "TZ", " ", "'", "foo", "'">>) }

\* The sequences of at most n elements of S.
SeqsUpTo(S, n) == UNION {[1..k -> S] : k \in 0..n}

\* The nesting of subqueries and of parenthesised expressions the inputs
\* go beyond: the maximum recursion depth, configured to allow no nesting.
MaxRecursionDepth == 0

\* n + 1 SELECT statements, each the subquery of the one before.
Subqueries(n) ==
  IF n = 0 THEN <<"SELECT", " ", "v", " ", "FROM", " ", "m">>
  ELSE <<"SELECT", " ", "v", " ", "FROM", " ", "(">> \o Subqueries(n - 1)
         \o <<")">>

\* An expression in n pairs of parentheses.
Parentheses(n) ==
  IF n = 0 THEN <<"v", " ", "+", " ", "1">>
  ELSE <<"(">> \o Parentheses(n - 1) \o <<")">>

\* Statements without optional clauses: nested deeper than the maximum
\* recursion depth, and with an alias that is not an identifier.
MoreHeads ==
  { [valid |-> TRUE, text |-> Subqueries(MaxRecursionDepth + 1)],
    [valid |-> TRUE,
     text |-> <<"SELECT", " ">> \o Parentheses(MaxRecursionDepth + 1)
                \o <<" ", "FROM", " ", "m">>],
    [valid |-> FALSE,
     text |-> <<"SELECT", " ", "v", " ", "AS", " ", "5", " ", "FROM", " ", "m">>] }

SelectSources ==
  { [entry |-> "select", head |-> h, clauses |-> cs] :
      h \in Heads, cs \in SeqsUpTo(ClauseFrags, MaxClauses) }
    \cup { [entry |-> "select", head |-> h, clauses |-> << >>] : h \in MoreHeads }

\* A TIME call as typed: the keyword, what opens the argument list, the
\* interval, the offset and what closes the list, each with what it is.
TimeOpen == { [k |-> "none", text |-> << >>], [k |-> "paren", text |-> <<"(">>],
              [k |-> "paren", text |-> <<" ", "(">>] }

TimeInterval ==
  { [k |-> "none", text |-> << >>],
    [k |-> "durations", text |-> <<"5m">>],
    [k |-> "durations", text |-> <<"5m", "3s">>],
    [k |-> "durations", text |-> <<" ", "5m", " ", "+", " ", "3s">>],
    [k |-> "durations", text |-> <<"(", "60s", "*", "-", "1m", ")">>],
    [k |-> "first_not_duration", text |-> <<"3">>],
    [k |-> "first_not_duration", text |-> <<"foo">>],
    [k |-> "first_not_duration", text |-> <<"'", "foo", "'">>],
    [k |-> "later_not_duration", text |-> <<"5m", " ", "+", " ", "3">>],
    [k |-> "later_not_duration", text |-> <<"5m", "*", "now", "(", ")">>] }

TimeOffset ==
  { [k |-> "none", text |-> << >>],
    [k |-> "now", text |-> <<",", " ", "now", "(", ")">>],
    [k |-> "duration", text |-> <<" ", ",", " ", "1m">>],
    [k |-> "string", text |-> <<",", " ", "'", "foo", "'">>],
    [k |-> "other_call", text |-> <<",", " ", "foo", "(", ")">>],
    [k |-> "other_call", text |-> <<",", "now", "(", "5m", ")">>],
    [k |-> "other_call", text |-> <<",", " ", "foo", "(", "now", "(", ")", ")">>],
    [k |-> "now", text |-> <<",", "NOW", "(", ")">>],
    [k |-> "not_offset", text |-> <<",", " ", "3">>],
    [k |-> "not_offset", text |-> <<",", " ", "foo">>],
    [k |-> "not_offset", text |-> <<",", "foo", "(", "3", ")">>],
    [k |-> "not_offset", text |-> <<",">>] }

TimeClose == { [k |-> "none", text |-> << >>], [k |-> "paren", text |-> <<")">>],
               [k |-> "paren", text |-> <<" ", ")">>],
               [k |-> "other", text |-> <<" ", "foo">>] }

TimeCallSources ==
  { [entry |-> "time_call", kw |-> kw, open |-> o, interval |-> iv,
     offset |-> of, close |-> c] :
      kw \in {"TIME", "time"}, o \in TimeOpen, iv \in TimeInterval,
      of \in TimeOffset, c \in TimeClose }

\* The texts the unit tests give to one parser each: the parser's name,
\* what the text is, and the text.
Test(entry, k, pieces) == [entry |-> entry, k |-> k, text |-> pieces]

FieldTests ==
  { Test("Field", "wildcard", <<"*">>),
    Test("Field", "wildcard_tag", <<"*", "::", "tag">>),
    Test("Field", "wildcard_tag", <<"*", "::", "TAG">>),
    Test("Field", "wildcard_field",
         <<"*", "::", "field", " ", "as", " ", "foo">>),
    Test("Field", "distinct_identifier", <<"distinct", " ", "foo">>),
    Test("Field", "distinct_identifier",
         <<"DISTINCT", "  ", "\"", "where", "\"">>),
    Test("Field", "distinct_identifier",
         <<"distinct", " ", "foo", " ", "+", " ", "1">>),
    Test("Field", "distinct_identifier",
         <<"distinct", " ", "foo", "(", "bar", ")">>),
    Test("Field", "distinct_other", <<"distinct", " ", "*">>),
    Test("Field", "distinct_other", <<"DISTINCT", " ", "5">>),
    Test("Field", "distinct_other", <<"distinct", "\n", "(", "foo", ")">>),
    Test("Field", "distinct_other", <<"distinct", " ", "/", "foo", "/">>),
    Test("Field", "distinct_other", <<"distinct", " ", "'", "foo", "'">>),
    Test("Field", "distinct_other", <<"distinct", " ", "$", "p">>),
    Test("Field", "distinct_other", <<"distinct", " ", "-", "foo">>),
    Test("Field", "distinct_other", <<"distinct", " ", "from">>),
    Test("Field", "distinct_other", <<"distinct", " ">>),
    Test("Field", "alias_other", <<"foo", " ", "as", " ", "1">>) }

FromTests ==
  { Test("from_clause", "name", <<"FROM", " ", "cpu">>),
    Test("from_clause", "name", <<"FROM", " ", "/", "cpu", "/">>),
    Test("from_clause", "name", <<"FROM", " ", "\"", "where", "\"">>),
    Test("from_clause", "subquery",
         <<"FROM", " ", "(", "SELECT", " ", "value", " ", "FROM", " ", "cpu", ")">>),
    Test("from_clause", "subquery",
         <<"FROM", "  ", "(", " ", "select", " ", "*", "  ", "from", "  ", "cpu",
           "  ", ")", ",", "\n", "/", "cpu", "/", ",", "m">>),
    Test("from_clause", "other", <<"FROM", " ", "1">>),
    Test("from_clause", "other", <<"FROM", " ", "(", "foo", ")">>),
    Test("from_clause", "other", <<"FROM", " ", "WHERE">>),
    Test("from_clause", "other", <<"from", "  ", "'", "foo", "'">>),
    Test("from_clause", "other", <<"FROM", " ", "*">>),
    Test("from_clause", "other", <<"FROM", " ", "$", "p">>),
    Test("from_clause", "other", <<"FROM", " ", ",", "m">>),
    Test("from_clause", "other", <<"FROM", " ", "(", ")">>),
    Test("from_clause", "other", <<"FROM", " ", "5m">>),
    Test("from_clause", "other", <<"FROM", " ">>) }

GroupByTests ==
  { Test("group_by_clause", "wildcard", <<"GROUP", " ", "BY", " ", "*">>),
    Test("group_by_clause", "wildcard",
         <<"GROUP", " ", "BY", " ", "*", "::", "tag">>),
    Test("group_by_clause", "wildcard",
         <<"group", " ", "by", "  ", "*", "::", "field">>),
    Test("group_by_clause", "wildcard",
         <<"GROUP", " ", "BY", " ", "*", "::", "FIELD">>),
    Test("group_by_clause", "list",
         <<"GROUP", " ", "BY", " ", "time", "(", "5m", ")", ",", " ", "/",
           "foo", "/", ",", " ", "*", "::", "tag">>),
    Test("group_by_clause", "no_by",
         <<"GROUP", " ", "time", "(", "5m", ")">>),
    Test("group_by_clause", "tag", <<"GROUP", " ", "BY", " ", "foo">>),
    Test("group_by_clause", "tag", <<"group", " ", "by", " ", "host">>),
    Test("group_by_clause", "tag",
         <<"GROUP", " ", "BY", " ", "time", "stamp">>),
    Test("group_by_clause", "tag",
         <<"GROUP", " ", "BY", " ", "Time", "stamp">>) }

\* FILL clauses: the keyword, '(', an option and ')', with and without
\* whitespace around the parentheses.  An option is one of the five kinds,
\* a text that is none of them ("other"), or a text that begins with one
\* of them and goes on ("longer"); shown is how Display writes it.
FillTests ==
  LET Option(k, pieces, shown) == [k |-> k, text |-> pieces, shown |-> shown]
      Options ==
        { Option("Null", <<"null">>, <<"NULL">>),
          Option("Null", <<"NULL">>, <<"NULL">>),
          Option("None", <<"none">>, <<"NONE">>),
          Option("None", <<"None">>, <<"NONE">>),
          Option("Previous", <<"previous">>, <<"PREVIOUS">>),
          Option("Previous", <<"PREVIOUS">>, <<"PREVIOUS">>),
          Option("Linear", <<"linear">>, <<"LINEAR">>),
          Option("Linear", <<"Linear">>, <<"LINEAR">>),
          Option("Integer", <<"25">>, <<"25">>),
          Option("Integer", <<"-", "5">>, <<"-", "5">>),
          Option("Float", <<"-", "05", ".", "3">>, <<"-", "5", ".", "3">>),
          Option("Float", <<"20", ".", "25">>, <<"20", ".", "25">>),
          Option("other", <<"foo">>, << >>),
          Option("other", <<"'", "null", "'">>, << >>),
          Option("other", <<"*">>, << >>),
          Option("other", <<"$", "p">>, << >>),
          Option("other", << >>, << >>),
          Option("longer", <<"null", "ify">>, << >>),
          Option("longer", <<"5", "m">>, << >>) }
  IN  { [entry |-> "fill_clause", k |-> o.k, shown |-> o.shown,
         text |-> <<kw>> \o open \o o.text \o close] :
          kw \in {"FILL", "fill", "Fill"},
          open \in {<<"(">>, <<" ", "(">>, <<" ", "(", " ">>},
          close \in {<<")">>, <<" ", ")">>},
          o \in Options }

\* SLIMIT, SOFFSET and TZ clauses.
ClauseTests ==
  { Test("slimit_clause", "number", <<"SLIMIT", " ", "25">>),
    Test("slimit_clause", "other", <<"SLIMIT", " ", "foo">>),
    Test("soffset_clause", "number", <<"SOFFSET", " ", "20">>),
    Test("soffset_clause", "number", <<"soffset", "  ", "05">>),
    Test("soffset_clause", "other", <<"SOFFSET", " ", "foo">>),
    Test("soffset_clause", "other", <<"soffset", "\n", "'", "foo", "'">>),
    Test("soffset_clause", "other", <<"SOFFSET", " ", "-", "5">>),
    Test("soffset_clause", "other", <<"SOFFSET", " ", "*">>),
    Test("soffset_clause", "other", <<"SOFFSET", " ">>),
    Test("timezone_clause", "string",
         <<"TZ", "(", "'", "Australia/Hobart", "'", ")">>),
    Test("timezone_clause", "string", <<"tz", " ", "(", " ", "'", "foo", "'", " ", ")">>),
    Test("timezone_clause", "other", <<"TZ", "(", "foo", ")">>),
    Test("timezone_clause", "other", <<"TZ", "(", "5", ")">>),
    Test("timezone_clause", "other", <<"tz", " ", "(", " ", "5m", ")">>),
    Test("timezone_clause", "other", <<"TZ", "(", "\"", "foo", "\"", ")">>),
    Test("timezone_clause", "other", <<"TZ", "(", "/", "foo", "/", ")">>),
    Test("timezone_clause", "other", <<"TZ", "(", ")">>) }

\* The longest timezone string typed.
MaxTz == 2

\* What timezone strings are made of: a letter and the four characters
\* Display escapes.
TzPieces == {"n", "\n", "\\", "'", "\""}

\* A TZ clause for every timezone string of at most MaxTz pieces, typed
\* with the newline, the backslash and the single quote escaped.
TzTests ==
  { [entry |-> "timezone_clause", k |-> "escaped", tz |-> t,
     text |-> <<"TZ", "(", "'">> \o WriteEscaped(t, {"\n", "\\", "'"})
                \o <<"'", ")">>] :
      t \in SeqsUpTo(TzPieces, MaxTz) }

Tests ==
  FieldTests \cup FromTests \cup GroupByTests \cup FillTests \cup ClauseTests
    \cup TzTests

Sources == SelectSources \cup TimeCallSources \cup Tests

\* The text typed for a source.
Render(s) ==
  IF s.entry = "select"
  THEN s.head.text \o Flatten([k \in 1..Len(s.clauses) |-> s.clauses[k].text])
  ELSE IF s.entry = "time_call"
  THEN <<s.kw>> \o s.open.text \o s.interval.text \o s.offset.text
         \o s.close.text
  ELSE s.text

---------------------------------------------------------------------------
(* The HTTP front-end (influxdb_iox/src/influxdb_ioxd/http/mod.rs)         *)

\* Result<T, E>
ResultOk(v) == [ok |-> TRUE, val |-> v]

ResultErr(e) == [ok |-> FALSE, err |-> e]

\* A hyper Request: the method, the uri's path and query, the names of the
\* headers it carries and the value of its Accept header.
Request(method, path, query, headers, accept) ==
  [method |-> method, path |-> path, query |-> query, headers |-> headers,
   accept |-> accept]

\* A hyper Response, by the kind of its status and what its body is made of.
Response(status, body) == [status |-> status, body |-> body]

\* The responses RouteError provides for an error.
bad_request(e) == Response("bad_request", e.err)

internal_error(e) == Response("internal_error", e.err)

no_content(e) == Response("no_content", e.err)

not_found(e) == Response("not_found", e.err)

\* server_type::test::ApplicationError as a RouteError: to_http_api_error.
TestApplicationError_response(e) ==
  CASE e.err = "RouteNotFound" -> not_found(e)

\* impl RouteError for ApplicationError
ApplicationError_response(e) ==
  CASE e.err = "InvalidQueryString" -> bad_request(e)
    [] e.err = "PProf" -> internal_error(e)
    [] e.err = "Prost" -> internal_error(e)
    [] e.err = "ProstIO" -> internal_error(e)
    [] e.err = "EmptyFlamegraph" -> no_content(e)
    [] e.err = "HeappyIsNotCompiled" -> internal_error(e)
    [] e.err = "PProfIsNotCompiled" -> internal_error(e)
    [] e.err = "HeappyError" -> internal_error(e)
    [] e.err = "RunModeRouteError" -> TestApplicationError_response(e.source)

ApplicationError(name) == [err |-> name]

health == ResultOk(Response("ok", "OK"))

handle_metrics == ResultOk(Response("ok", "metrics"))

pprof_home(r) ==
  ResultOk(Response("ok",
     <<"links", IF "host" \in r.headers THEN "host" ELSE "localhost">>))

\* serde_urlencoded::from_str into PProfArgs or PProfAllocsArgs: every
\* field has a default; a value that is not a number is an error.
QueryParses(query) == query \in {"", "seconds=5"}

\* Whether the Accept header asks for the flamegraph.
WantsFlamegraph(r) == r.accept \in {"text/html", "image/svg+xml"}

\* What the profiler calls of one request come to: whether the dump
\* succeeds, what rendering the flamegraph gives, whether encoding the
\* profile succeeds.
Outcomes ==
  [dump : BOOLEAN, flamegraph : {"drawn", "empty", "failed"},
   encode : BOOLEAN]

\* pprof_profile, of the build with the feature and of the build without.
pprof_profile(r, out) ==
  IF "pprof" \notin features
  THEN ResultErr(ApplicationError("PProfIsNotCompiled"))
  ELSE IF ~QueryParses(r.query)
  THEN ResultErr(ApplicationError("InvalidQueryString"))
  ELSE IF ~out.dump THEN ResultErr(ApplicationError("PProf"))
  ELSE IF WantsFlamegraph(r)
  THEN CASE out.flamegraph = "failed" -> ResultErr(ApplicationError("PProf"))
         [] out.flamegraph = "empty" ->
              ResultErr(ApplicationError("EmptyFlamegraph"))
         [] OTHER -> ResultOk(Response("ok", "flamegraph"))
  ELSE IF ~out.encode THEN ResultErr(ApplicationError("Prost"))
  ELSE ResultOk(Response("ok", "profile"))

\* pprof_heappy_profile, likewise; heappy's flamegraph cannot fail.
pprof_heappy_profile(r, out) ==
  IF "heappy" \notin features
  THEN ResultErr(ApplicationError("HeappyIsNotCompiled"))
  ELSE IF ~QueryParses(r.query)
  THEN ResultErr(ApplicationError("InvalidQueryString"))
  ELSE IF ~out.dump THEN ResultErr(ApplicationError("HeappyError"))
  ELSE IF WantsFlamegraph(r)
  THEN IF out.flamegraph = "empty"
       THEN ResultErr(ApplicationError("EmptyFlamegraph"))
       ELSE ResultOk(Response("ok", "flamegraph"))
  ELSE IF ~out.encode THEN ResultErr(ApplicationError("ProstIO"))
  ELSE ResultOk(Response("ok", "profile"))

\* TestServerType::route_http_request
route_http_request(r) ==
  ResultErr([err |-> "RouteNotFound", method |-> r.method, path |-> r.path])

\* .map_err(|e| Box::new(e) as _).context(RunModeRouteError)
context_RunModeRouteError(res) ==
  IF res.ok THEN res
  ELSE ResultErr([err |-> "RunModeRouteError", source |-> res.err])

\* A route that looks at the path alone.
route_by_path(method, path) ==
  CASE path = "/health" -> "health"
    [] path = "/metrics" -> "handle_metrics"
    [] path = "/debug/pprof" -> "pprof_home"
    [] path = "/debug/pprof/profile" -> "pprof_profile"
    [] path = "/debug/pprof/allocs" -> "pprof_heappy_profile"
    [] OTHER -> "route_http_request"

\* The arm that match (method.clone(), uri.path()) takes.
route(method, path) ==
  CASE method = "GET" /\ path = "/health" -> "health"
    [] method = "GET" /\ path = "/metrics" -> "handle_metrics"
    [] method = "GET" /\ path = "/debug/pprof" -> "pprof_home"
    [] method = "GET" /\ path = "/debug/pprof/profile" -> "pprof_profile"
    [] method = "GET" /\ path = "/debug/pprof/allocs" -> "pprof_heappy_profile"
    [] OTHER -> "route_http_request"

\* The handler of an arm called with the request.
dispatch(handler, r, out) ==
  CASE handler = "health" -> health
    [] handler = "handle_metrics" -> handle_metrics
    [] handler = "pprof_home" -> pprof_home(r)
    [] handler = "pprof_profile" -> pprof_profile(r, out)
    [] handler = "pprof_heappy_profile" -> pprof_heappy_profile(r, out)
    [] handler = "route_http_request" ->
         context_RunModeRouteError(route_http_request(r))

\* debug!(request = ?req, "Processing request")
LogRequest(r) == [level |-> "debug", request |-> r]

\* debug!(?response, ..) for a response, error!(%error, %method, %uri,
\* ?content_length, ..) for an error.
LogResponse(r, response) ==
  IF response.ok
  THEN [level |-> "debug", response |-> response.val]
  ELSE [level |-> "error", error |-> response.err, method |-> r.method,
        uri |-> <<r.path, r.query>>,
        content_length |-> "content-length" \in r.headers]

\* The end of route_request: the response of an error as the response.
route_response(response) ==
  ResultOk(IF response.ok THEN response.val
           ELSE ApplicationError_response(response.err))

\* route_request of request r0: the handler that got the request, the
\* request as it got it (seen), what it returned (handled), what was
\* logged and what route_request returned (ret).
route_request(r0, out) ==
  [received |-> r0,
   handler |-> route(r0.method, r0.path),
   seen |-> [r0 EXCEPT !.headers = @ \ {"authorization"}],
   handled |-> dispatch(route(r0.method, r0.path),
                        [r0 EXCEPT !.headers = @ \ {"authorization"}], out),
   log |-> <<LogRequest([r0 EXCEPT !.headers = @ \ {"authorization"}]),
             LogResponse(r0,
               dispatch(route(r0.method, r0.path),
                        [r0 EXCEPT !.headers = @ \ {"authorization"}], out))>>,
   ret |-> route_response(
             dispatch(route(r0.method, r0.path),
                      [r0 EXCEPT !.headers = @ \ {"authorization"}], out))]

Methods == {"GET", "POST"}

BuiltInPaths ==
  {"/health", "/metrics", "/debug/pprof", "/debug/pprof/profile",
   "/debug/pprof/allocs"}

Paths == BuiltInPaths \cup {"/health/", "/api/v2/write"}

\* The requests: every method and path with and without an authorization
\* header, and the profile requests with each query and Accept header.
Requests ==
  { Request(m, p, "", h, "") :
      m \in Methods, p \in Paths,
      h \in {{}, {"authorization"}, {"authorization", "content-length"},
             {"host"}} }
    \cup
  { Request("GET", p, q, h, a) :
      p \in {"/debug/pprof/profile", "/debug/pprof/allocs"},
      q \in {"", "seconds=5", "seconds=x"},
      h \in {{}, {"authorization"}},
      a \in {"", "text/html", "image/svg+xml", "application/json"} }

\* hyper hands a request of a connection to the service.
Accept ==
  /\ serving = "serving"
  /\ ~serve_shutdown
  /\ req = None
  /\ \E r \in Requests : req' = Some(r)
  /\ routed' = None
  /\ UNCHANGED <<features, serving, serve_shutdown>>
  /\ UNCHANGED <<parser_vars, server_vars>>

\* The service answers the request in flight.
RouteRequest ==
  /\ req # None
  /\ \E out \in Outcomes : routed' = Some(route_request(req[1], out))
  /\ req' = None
  /\ UNCHANGED <<features, serving, serve_shutdown>>
  /\ UNCHANGED <<parser_vars, server_vars>>

\* The owner of serve's token cancels it.
CancelServe ==
  /\ ~serve_shutdown
  /\ serve_shutdown' = TRUE
  /\ UNCHANGED <<features, serving, req, routed>>
  /\ UNCHANGED <<parser_vars, server_vars>>

\* with_graceful_shutdown(shutdown.cancelled()): once the token is
\* cancelled and no request is in flight, serve returns.
ServeReturn ==
  /\ serving = "serving"
  /\ serve_shutdown
  /\ req = None
  /\ serving' = "returned"
  /\ UNCHANGED <<features, serve_shutdown, req, routed>>
  /\ UNCHANGED <<parser_vars, server_vars>>

---------------------------------------------------------------------------
(* The test server type (influxdb_iox/src/influxdb_ioxd/server_type/test.rs) *)

TestAction ==
  {"None", "EarlyReturnFromGrpcWorker", "EarlyReturnFromServerWorker",
   "PanicInGrpcWorker", "PanicInServerWorker"}

\* The callers of join().
MaxJoins == 3

\* The shutdown() calls made are counted up to this number.
MaxShutdowns == 2

\* TestServerType::new
TestServerType_new(action) ==
  /\ test_action = action
  /\ shutdown = FALSE
  /\ joins = [j \in 1..MaxJoins |-> "idle"]
  /\ shutdown_calls = 0

\* A join() that returns at once whatever the token says.
join_early(action, cancelled) ==
  IF action = "PanicInServerWorker" THEN "panicked" ELSE "done"

\* join() up to its await: it panics, returns, or awaits the token, which
\* is ready at once when the token is cancelled already.
join(action, cancelled) ==
  IF action = "PanicInServerWorker" THEN "panicked"
  ELSE IF action = "EarlyReturnFromServerWorker" THEN "done"
  ELSE IF cancelled THEN "done"
  ELSE "waiting"

\* Caller j calls join() and polls it.
Join(j) ==
  /\ joins[j] \in {"idle", "done"}
  /\ joins' = [joins EXCEPT ![j] = join(test_action, shutdown)]
  /\ UNCHANGED <<test_action, shutdown, shutdown_calls>>
  /\ UNCHANGED <<parser_vars, http_vars>>

\* self.shutdown.cancelled().await of caller j completes: the cancelled
\* token has woken the task.
JoinWake(j) ==
  /\ joins[j] = "waiting"
  /\ shutdown
  /\ joins' = [joins EXCEPT ![j] = "done"]
  /\ UNCHANGED <<test_action, shutdown, shutdown_calls>>
  /\ UNCHANGED <<parser_vars, http_vars>>

\* shutdown(): self.shutdown.cancel()
Shutdown ==
  /\ shutdown_calls < MaxShutdowns
  /\ shutdown' = TRUE
  /\ shutdown_calls' = shutdown_calls + 1
  /\ UNCHANGED <<test_action, joins>>
  /\ UNCHANGED <<parser_vars, http_vars>>

---------------------------------------------------------------------------
(* The state machine: a text is typed, parsed, displayed, parsed again and *)
(* displayed again.                                                        *)

NoResult == Err(<< >>, "not parsed")

\* No HTTP front-end is serving.
NoHttp ==
  /\ features = {}
  /\ serving = "off"
  /\ serve_shutdown = FALSE
  /\ req = None
  /\ routed = None

Init ==
  /\ src \in Sources
  /\ input = Render(src)
  /\ pc = "typed"
  /\ result = NoResult
  /\ text = << >>
  /\ result2 = NoResult
  /\ text2 = << >>
  /\ NoHttp
  /\ TestServerType_new("None")

\* The parser and the Display implementation of an entry point.
Parse(entry, i) ==
  IF entry = "select" THEN P("select_statement", "", i)
  ELSE IF entry = "time_call" THEN P("time_call_expression", "", i)
  ELSE IF entry = "Field" THEN P("parse", "Field", i)
  ELSE P(entry, "", i)

Display(entry, v) ==
  CASE entry = "select" -> D("SelectStatement", v)
    [] entry = "time_call" -> D("Dimension", v)
    [] entry = "Field" -> D("Field", v)
    [] entry = "from_clause" -> ListDisplay("Measurement", v)
    [] entry = "group_by_clause" -> ListDisplay("Dimension", v)
    [] entry = "fill_clause" -> FillOptionDisplay(v)
    [] entry = "timezone_clause" -> Tail(TimezoneDisplay(Some(v)))

\* The entry points whose values implement Display or are written by one
\* (the timezone by Display of SelectStatement, after the separating
\* space), and those whose displayed text is a text of the same parser.
Displayed == {"select", "time_call", "Field", "from_clause", "group_by_clause",
              "fill_clause", "timezone_clause"}

Reparsable == {"select", "time_call", "Field", "timezone_clause"}

ParseSelect ==
  /\ pc = "typed"
  /\ src.entry = "select"
  /\ result' = P("select_statement", "", input)
  /\ pc' = "parsed"
  /\ UNCHANGED <<src, input, text, result2, text2>>
  /\ UNCHANGED <<http_vars, server_vars>>

ParseTimeCall ==
  /\ pc = "typed"
  /\ src.entry = "time_call"
  /\ result' = P("time_call_expression", "", input)
  /\ pc' = "parsed"
  /\ UNCHANGED <<src, input, text, result2, text2>>
  /\ UNCHANGED <<http_vars, server_vars>>

\* A unit test calls the parser it is about.
ParseTest ==
  /\ pc = "typed"
  /\ src.entry \notin {"select", "time_call"}
  /\ result' = Parse(src.entry, input)
  /\ pc' = "parsed"
  /\ UNCHANGED <<src, input, text, result2, text2>>
  /\ UNCHANGED <<http_vars, server_vars>>

\* format!("{}", got)
Format ==
  /\ pc = "parsed"
  /\ result.ok
  /\ src.entry \in Displayed
  /\ text' = Display(src.entry, result.val)
  /\ pc' = "displayed"
  /\ UNCHANGED <<src, input, result, result2, text2>>
  /\ UNCHANGED <<http_vars, server_vars>>

Reparse ==
  /\ pc = "displayed"
  /\ src.entry \in Reparsable
  /\ result2' = Parse(src.entry, text)
  /\ pc' = "reparsed"
  /\ UNCHANGED <<src, input, result, text, text2>>
  /\ UNCHANGED <<http_vars, server_vars>>

Reformat ==
  /\ pc = "reparsed"
  /\ result2.ok
  /\ text2' = Display(src.entry, result2.val)
  /\ pc' = "done"
  /\ UNCHANGED <<src, input, result, text, result2>>
  /\ UNCHANGED <<http_vars, server_vars>>

Next ==
  ParseSelect \/ ParseTimeCall \/ ParseTest \/ Format \/ Reparse \/ Reformat

Spec == Init /\ [][Next]_vars

\* No text is being parsed.
NoParser ==
  /\ pc = "idle"
  /\ src = [entry |-> "none"]
  /\ input = << >>
  /\ result = NoResult
  /\ text = << >>
  /\ result2 = NoResult
  /\ text2 = << >>

\* serve has been called, in a build with any of the two features, for a
\* TestServerType.
HttpInit ==
  /\ features \in SUBSET {"pprof", "heappy"}
  /\ serving = "serving"
  /\ serve_shutdown = FALSE
  /\ req = None
  /\ routed = None
  /\ TestServerType_new("None")
  /\ NoParser

HttpNext == Accept \/ RouteRequest \/ CancelServe \/ ServeReturn

HttpSpec == HttpInit /\ [][HttpNext]_vars

\* A TestServerType of any test_action has been constructed.
ServerInit ==
  /\ \E action \in TestAction : TestServerType_new(action)
  /\ NoHttp
  /\ NoParser

ServerNext ==
  \/ \E j \in 1..MaxJoins : Join(j)
  \/ \E j \in 1..MaxJoins : JoinWake(j)
  \/ Shutdown

\* The runtime polls a task that a cancelled token has woken.
ServerSpec ==
  /\ ServerInit
  /\ [][ServerNext]_vars
  /\ \A j \in 1..MaxJoins : WF_vars(JoinWake(j))

---------------------------------------------------------------------------
(* What the properties speak of                                            *)

RECURSIVE Accepted(_, _, _)
RECURSIVE NonEmptySelect(_)
RECURSIVE OnlyDurationLeaves(_)

IsSelect == src.entry = "select"

IsTimeCall == src.entry = "time_call"

\* The first parse has returned.
Parsed == pc # "typed"

\* The second parse (of the displayed text) has returned.
Reparsed == pc \in {"reparsed", "done"}

ExpectedArguments == "invalid TIME call, expected 1 or 2 arguments"

ExpectedInterval == "invalid TIME call, expected a duration for the interval"

ExpectedDuration == "invalid TIME call, expected duration"

ExpectedClose == "invalid TIME call, expected ')'"

OnlyNow ==
  "invalid expression, the only valid function call is 'now' with no arguments"

\* The parse failed with the unrecoverable error tagged msg.
FailedWith(r, msg) == ~r.ok /\ r.fatal /\ r.msg = msg

\* The typed statement has an ascending ORDER BY clause.
TypedAscending ==
  \E k \in DOMAIN src.clauses :
    /\ src.clauses[k].slot = 4
    /\ Lower(src.clauses[k].text[Len(src.clauses[k].text)]) = "asc"

\* The number of clauses typed after FROM, from the k-th on and after a
\* clause of the given slot, that are well formed and in the order of the
\* grammar.
Accepted(cs, k, slot) ==
  IF k > Len(cs) THEN k - 1
  ELSE IF cs[k].class = "valid" /\ cs[k].slot > slot
       THEN Accepted(cs, k + 1, cs[k].slot)
       ELSE k - 1

\* The text of the clauses typed from the k-th on.
ClauseText(cs, k) ==
  Flatten([j \in 1..(Len(cs) - k + 1) |-> cs[k + j - 1].text])

\* The slot of the n-th clause typed, 0 for the FROM clause before them.
SlotOf(cs, n) == IF n = 0 THEN 0 ELSE cs[n].slot

ExprKinds ==
  {"VarRef", "BindParameter", "Literal", "Wildcard", "Distinct", "Call",
   "Binary", "Nested", "UnaryOp"}

\* The one-or-more collections of s and of its subqueries are not empty,
\* and every TIME dimension has its interval.
NonEmptySelect(s) ==
  /\ Len(s.fields) >= 1
  /\ Len(s.from) >= 1
  /\ IsSome(s.group_by) =>
       /\ Len(s.group_by[1]) >= 1
       /\ \A k \in DOMAIN s.group_by[1] :
            s.group_by[1][k].kind = "Time" =>
              s.group_by[1][k].interval.kind \in ExprKinds
  /\ \A k \in DOMAIN s.from :
       s.from[k].kind = "Subquery" => NonEmptySelect(s.from[k].select)

\* The leaves of e are duration literals.
OnlyDurationLeaves(e) ==
  CASE e.kind = "Literal" -> e.lit.type = "Duration"
    [] e.kind = "Binary" -> OnlyDurationLeaves(e.lhs) /\ OnlyDurationLeaves(e.rhs)
    [] e.kind = "Nested" -> OnlyDurationLeaves(e.inner)
    [] e.kind = "UnaryOp" -> OnlyDurationLeaves(e.operand)
    [] OTHER -> FALSE

\* The TIME dimensions of a parse result: the dimension itself for a TIME
\* call, the TIME items of the GROUP BY list for a statement.
TimeDimensions(v) ==
  IF IsTimeCall THEN {v}
  ELSE IF IsSelect /\ IsSome(v.group_by)
       THEN {v.group_by[1][k] : k \in {j \in DOMAIN v.group_by[1] :
                                          v.group_by[1][j].kind = "Time"}}
       ELSE IF src.entry = "group_by_clause"
       THEN {v[k] : k \in {j \in DOMAIN v : v[j].kind = "Time"}}
       ELSE {}

\* The text typed after the TIME keyword, and after its '(' when there is
\* one, whitespace skipped.
AfterTime == multispace0(Tail(input))

OpensParen == AfterTime # << >> /\ Head(AfterTime) = "("

AfterParen == multispace0(Tail(AfterTime))

\* TIME() : the argument list is opened and closed with nothing in it.
EmptyArguments == OpensParen /\ AfterParen # << >> /\ Head(AfterParen) = ")"

\* The text after "TIME(" does not start an interval expression: it is
\* not a duration literal, a '(' or a '-'.
MissingInterval ==
  OpensParen /\ (AfterParen = << >>
                   \/ (~IsDurPiece(Head(AfterParen))
                         /\ Head(AfterParen) \notin {"(", "-"}))

\* A TIME call typed with its '(' and an interval of durations.
ValidInterval ==
  IsTimeCall /\ src.open.k = "paren" /\ src.interval.k = "durations"

ValidOffset == src.offset.k \in {"none", "now", "duration", "string"}

---------------------------------------------------------------------------
(* The properties                                                          *)

\* C1: for every input that select_statement accepts, parsing the Display
\* output of the parsed statement succeeds and yields an AST equal to the
\* one parsed from the input, in every field.
C1_RoundTrip ==
  (IsSelect /\ Reparsed /\ result.ok) =>
    (result2.ok /\ result2.val = result.val)

\* C2: for every accepted input the canonical text written by Display is
\* accepted by select_statement with no input left over, and displays
\* again to the same text.
C2_IdempotentDisplay ==
  (IsSelect /\ result.ok) =>
    /\ Reparsed => (result2.ok /\ result2.rem = << >>)
    /\ pc = "done" => text2 = text

\* C3 as stated: a statement whose ORDER BY clause is ascending parses to
\* a SelectStatement whose order_by is None.
C3_AscendingIsNone ==
  (IsSelect /\ Parsed /\ result.ok /\ result.rem = << >> /\ TypedAscending) =>
    result.val.order_by = None

\* C3 as amended: a statement whose ORDER BY clause is ascending parses to
\* a SelectStatement whose order_by is Some(Ascending); it is Display that
\* elides it, writing no ORDER BY text, so that the displayed text parses
\* to a statement whose order_by is None.
C3_AscendingElidedByDisplay ==
  (IsSelect /\ Parsed /\ result.ok /\ result.rem = << >> /\ TypedAscending) =>
    /\ result.val.order_by = Some("Ascending")
    /\ pc \in {"displayed", "reparsed", "done"} =>
         \A k \in DOMAIN text : text[k] # "ORDER"
    /\ (Reparsed /\ result2.ok) => result2.val.order_by = None

C3_Witness ==
  /\ IsSelect /\ pc = "done" /\ TypedAscending
  /\ result.ok /\ result.rem = << >>
  /\ result.val.order_by = Some("Ascending")
  /\ result2.ok /\ result2.val.order_by = None

\* C4 as stated: select_statement returns an error or a SelectStatement
\* that accounts for the whole text; it never succeeds with a following
\* clause left unparsed.
C4_WholeTextOrError ==
  (IsSelect /\ Parsed /\ result.ok) => result.rem = << >>

\* C4 as amended: select_statement returns an error, or the SelectStatement
\* of a leading part of the text together with the rest of the text.  With
\* a well-formed SELECT ... FROM part, the clauses that follow in the order
\* of the grammar are parsed; the first clause that is out of order, or
\* that fails where no expect guards it (FILL or TZ without '('), is not
\* an error: the statement parsed so far is returned with that clause and
\* all that follows as the remaining input.  A clause in order that fails
\* at an expect-guarded position fails the whole parse.
C4_RestIsReturned ==
  (IsSelect /\ Parsed) =>
    LET cs == src.clauses
        n  == Accepted(src.clauses, 1, 0)
    IN  IF ~src.head.valid THEN ~result.ok
        ELSE IF n = Len(cs) THEN result.ok /\ result.rem = << >>
        ELSE IF cs[n + 1].class = "guarded" /\ cs[n + 1].slot > SlotOf(cs, n)
             THEN ~result.ok /\ result.fatal
             ELSE result.ok /\ result.rem = ClauseText(cs, n + 1)

C4_Witness ==
  /\ IsSelect /\ pc = "parsed" /\ result.ok
  /\ result.val.limit = Some(5)
  /\ result.rem # << >> /\ Lower(result.rem[2]) = "fill"

\* C5: in every SelectStatement a successful parse returns, and in every
\* subquery of it, fields and from have at least one item, group_by when
\* present has at least one dimension, and every TIME dimension has an
\* interval expression.
C5_NonEmpty ==
  /\ (IsSelect /\ Parsed /\ result.ok) => NonEmptySelect(result.val)
  /\ (IsSelect /\ Reparsed /\ result2.ok) => NonEmptySelect(result2.val)

C5_Witness ==
  /\ IsSelect /\ pc = "parsed" /\ result.ok
  /\ \E k \in DOMAIN result.val.from : result.val.from[k].kind = "Subquery"
  /\ IsSome(result.val.group_by)
  /\ \E k \in DOMAIN result.val.group_by[1] :
       result.val.group_by[1][k].kind = "Time"

\* C6: in every TIME dimension the parser produces, the leaves of the
\* interval expression are duration literals, combined by arithmetic
\* operators; no other kind of leaf appears in it.
C6_IntervalOfDurations ==
  (Parsed /\ result.ok) =>
    \A d \in TimeDimensions(result.val) : OnlyDurationLeaves(d.interval)

C6_Witness ==
  /\ IsTimeCall /\ pc = "parsed" /\ result.ok
  /\ result.val.interval.kind = "Binary"
  /\ result.val.interval.rhs.kind = "Literal"

\* C7 as stated: when TIME is followed by zero arguments (no parenthesis,
\* or "TIME()"), time_call_expression fails with the message
\* "invalid TIME call, expected 1 or 2 arguments".
C7_ZeroArguments ==
  (IsTimeCall /\ Parsed /\ (~OpensParen \/ EmptyArguments)) =>
    FailedWith(result, ExpectedArguments)

\* C7 as amended: when TIME is not followed, after optional whitespace, by
\* '(', time_call_expression fails with the message "invalid TIME call,
\* expected 1 or 2 arguments"; that message is given in no other case, and
\* "TIME()" fails with "invalid TIME call, expected duration".
C7_NoParenthesis ==
  (IsTimeCall /\ Parsed) =>
    /\ ~OpensParen <=> FailedWith(result, ExpectedArguments)
    /\ EmptyArguments => FailedWith(result, ExpectedDuration)

C7_Witness ==
  /\ IsTimeCall /\ pc = "parsed" /\ EmptyArguments
  /\ FailedWith(result, ExpectedDuration)

\* C8 as stated: when the interval of a TIME call is missing its duration
\* (the text after "TIME(" does not start with a duration literal, nor with
\* the '(' or '-' of a larger interval expression), time_call_expression
\* fails with the message
\* "invalid TIME call, expected a duration for the interval".
C8_IntervalMessage ==
  (IsTimeCall /\ Parsed /\ MissingInterval) =>
    FailedWith(result, ExpectedInterval)

\* C8 as amended: when the text after "TIME(" does not start an interval
\* expression (it is not a duration literal, a '(' or a '-'),
\* time_call_expression fails with the message of the operand parser,
\* "invalid TIME call, expected duration"; the message "invalid TIME call,
\* expected a duration for the interval" is never given.
C8_OperandMessage ==
  (IsTimeCall /\ Parsed) =>
    /\ MissingInterval => FailedWith(result, ExpectedDuration)
    /\ ~result.ok => result.msg # ExpectedInterval

C8_Witness ==
  /\ IsTimeCall /\ pc = "parsed" /\ MissingInterval
  /\ AfterParen # << >> /\ Head(AfterParen) = "foo"
  /\ FailedWith(result, ExpectedDuration)

\* C9: whenever an operand of the interval expression of a TIME call is
\* not a duration literal, the first one as in "TIME(3)" or a later one as
\* in "TIME(5m + 3)", time_call_expression fails with the message
\* "invalid TIME call, expected duration".
C9_ExpectedDuration ==
  (IsTimeCall /\ Parsed /\ src.open.k = "paren"
     /\ src.interval.k \in {"first_not_duration", "later_not_duration"}) =>
    FailedWith(result, ExpectedDuration)

C9_Witness ==
  /\ IsTimeCall /\ pc = "parsed" /\ src.open.k = "paren"
  /\ src.interval.k = "later_not_duration"
  /\ FailedWith(result, ExpectedDuration)

\* C10 as stated: after a valid interval, if the call is not closed by ')'
\* or the text after the comma is an offset that is neither now(), a
\* duration nor a single-quoted string, time_call_expression fails with
\* the message "invalid TIME call, expected ')'".
C10_ExpectedClose ==
  (Parsed /\ ValidInterval
     /\ (src.close.k # "paren" \/ ~ValidOffset)) =>
    FailedWith(result, ExpectedClose)

\* C10 as amended: after a valid interval, time_call_expression fails with
\* the message "invalid TIME call, expected ')'" if the call is not closed
\* by ')', or if the text after the comma does not parse as an offset
\* operand: a call whose arguments are offset operands themselves, a
\* duration or a single-quoted string (as in "TIME(5m, 3)" and
\* "TIME(5m, foo(3))"); when it parses as a call that is not now with no
\* arguments (as in "TIME(5m, foo())" and "TIME(5m, now(5m))"), the
\* failure is the message of that check, "invalid expression, the only
\* valid function call is 'now' with no arguments"; otherwise the call is
\* parsed.
C10_CloseOrNow ==
  (Parsed /\ ValidInterval) =>
    CASE src.offset.k = "other_call" -> FailedWith(result, OnlyNow)
      [] src.offset.k = "not_offset" -> FailedWith(result, ExpectedClose)
      [] ValidOffset /\ src.close.k # "paren" -> FailedWith(result, ExpectedClose)
      [] OTHER -> result.ok /\ result.rem = << >>

C10_Witness ==
  /\ pc = "parsed" /\ ValidInterval
  /\ src.offset.k = "not_offset" /\ src.close.k = "paren"
  /\ FailedWith(result, ExpectedClose)

IsTest(entry) == src.entry = entry

WasDisplayed == pc \in {"displayed", "reparsed", "done"}

\* C11: in a GROUP BY dimension "*", "*::tag" and "*::field" all parse to
\* Dimension::Wildcard, the type of the wildcard discarded, and display as
\* "*"; the same wildcard in a projection field keeps its type as
\* Expr::Wildcard(Some(Tag)) or Expr::Wildcard(Some(Field)).
C11_WildcardNormalised ==
  /\ (IsTest("group_by_clause") /\ src.k = "wildcard" /\ Parsed) =>
       /\ result.ok /\ result.rem = << >>
       /\ result.val = <<DimWildcard>>
       /\ WasDisplayed => text = <<"*">>
  /\ (IsTest("Field") /\ Parsed) =>
       /\ src.k = "wildcard" => (result.ok /\ result.val.expr = Wildcard(None))
       /\ src.k = "wildcard_tag" =>
            (result.ok /\ result.val.expr = Wildcard(Some("Tag")))
       /\ src.k = "wildcard_field" =>
            (result.ok /\ result.val.expr = Wildcard(Some("Field")))

C11_Witness ==
  /\ IsTest("group_by_clause") /\ src.k = "wildcard" /\ pc = "displayed"
  /\ Lower(input[Len(input)]) = "field"
  /\ result.val = <<DimWildcard>>
  /\ text = <<"*">>

ExpectedMeasurement ==
  "invalid FROM clause, expected identifier, regular expression or subquery"

\* C12: after "FROM" and whitespace, when the first item is neither a
\* measurement name (identifier or regular expression) nor a parenthesised
\* SELECT statement, as in "FROM 1", "FROM (foo)" and "FROM WHERE",
\* from_clause fails with the unrecoverable error "invalid FROM clause,
\* expected identifier, regular expression or subquery"; a keyword in
\* double quotes, as in FROM "where", is accepted as a measurement name.
C12_ExpectedMeasurement ==
  (IsTest("from_clause") /\ Parsed) =>
    /\ src.k = "other" => FailedWith(result, ExpectedMeasurement)
    /\ src.k \in {"name", "subquery"} => (result.ok /\ result.rem = << >>)
    /\ input = <<"FROM", " ", "\"", "where", "\"">> =>
         (result.ok /\ result.val = <<[kind |-> "Name", name |-> <<"where">>]>>)

C12_Witness ==
  /\ IsTest("from_clause") /\ pc = "parsed"
  /\ input = <<"FROM", " ", "(", "foo", ")">>
  /\ FailedWith(result, ExpectedMeasurement)

ExpectedDistinctIdentifier == "invalid DISTINCT expression, expected identifier"

\* The leftmost operand of an expression.
LeftOperand(e) == IF e.kind = "Binary" THEN LeftOperand(e.lhs) ELSE e

\* The identifier typed after DISTINCT and whitespace, bare or quoted.
TypedAfterDistinct == IF input[3] = "\"" THEN <<input[4]>> ELSE <<input[3]>>

\* C13: in a projection field, when what follows DISTINCT and whitespace
\* is not an identifier (a wildcard, a literal, a parenthesis, a bind
\* parameter, a keyword, nothing), parsing fails with the message "invalid
\* DISTINCT expression, expected identifier"; when it is an identifier
\* the operand parsed is Expr::Distinct of that identifier.
C13_DistinctIdentifier ==
  (IsTest("Field") /\ Parsed) =>
    /\ src.k = "distinct_other" =>
         FailedWith(result, ExpectedDistinctIdentifier)
    /\ src.k = "distinct_identifier" =>
         /\ result.ok
         /\ LeftOperand(result.val.expr) = Distinct(TypedAfterDistinct)

C13_Witness ==
  /\ IsTest("Field") /\ pc = "parsed"
  /\ input = <<"distinct", " ", "*">>
  /\ FailedWith(result, ExpectedDistinctIdentifier)

ExpectedFillOption ==
  "invalid FILL option, expected NULL, NONE, PREVIOUS, LINEAR, or a number"

NestedTooDeeply == "nested too deeply"

\* What a parenthesis that opens a subquery or a parenthesised expression
\* comes after: FROM, a comma, SELECT, an operator or another such
\* parenthesis (and not the name of a call or of a clause).
GroupOpeners == {"from", ",", "select", "+", "-", "*", "/", "("}

\* The deepest nesting of subqueries and parenthesised expressions in the
\* text i: after is the last piece before i that is not whitespace, open
\* the parentheses open there, 1 for those that open a subquery or a
\* parenthesised expression and 0 for the others.
NestingFrom(i, open) ==
  IF i = << >> \/ open = << >> THEN 0
  ELSE IF Head(i) = "("
  THEN LET o == <<IF open[1] \in GroupOpeners THEN 1 ELSE 0>> \o Tail(open)
           n == Cardinality({k \in DOMAIN o : o[k] = 1})
           rest == NestingFrom(Tail(i), <<"(">> \o o)
       IN  IF rest > n THEN rest ELSE n
  ELSE IF Head(i) = ")"
  THEN NestingFrom(Tail(i),
         <<")">> \o (IF Len(open) > 1 THEN Tail(Tail(open)) ELSE << >>))
  ELSE NestingFrom(Tail(i),
         <<IF Head(i) \in Space THEN open[1] ELSE Lower(Head(i))>> \o Tail(open))

Nesting(i) == NestingFrom(i, <<"">>)

Written(i, w) == {k \in DOMAIN i : i[k] = w}

OrderByTimeDesc == <<" ", "ORDER", " ", "BY", " ", "TIME", " ", "DESC">>

\* C16: a SelectStatement whose order_by is None or ascending is displayed
\* with no ORDER BY text, and one whose order_by is descending with exactly
\* " ORDER BY TIME DESC"; so the input "ORDER BY DESC" displays as
\* "ORDER BY TIME DESC" and "ORDER BY TIME ASC" as nothing.
C16_OrderByDisplay ==
  (IsSelect /\ result.ok /\ WasDisplayed) =>
    /\ IF result.val.order_by = Some("Descending")
       THEN /\ Cardinality(Written(text, "ORDER")) = 1
            /\ \A k \in Written(text, "ORDER") :
                 /\ k > 1 /\ k + 6 <= Len(text)
                 /\ SubSeq(text, k - 1, k + 6) = OrderByTimeDesc
       ELSE /\ result.val.order_by \in {None, Some("Ascending")}
            /\ \A k \in DOMAIN text : Lower(text[k]) # "order"
    /\ (src.head.valid /\ Len(src.clauses) = 1 /\ src.clauses[1].slot = 4) =>
         IF Lower(src.clauses[1].text[Len(src.clauses[1].text)]) = "desc"
         THEN /\ result.val.order_by = Some("Descending")
              /\ SubSeq(text, Len(text) - 7, Len(text)) = OrderByTimeDesc
         ELSE result.val.order_by = Some("Ascending")

C16_Witness ==
  /\ IsSelect /\ pc = "displayed"
  /\ src.clauses = <<Frag(4, "valid", <<" ", "ORDER", " ", "BY", " ", "DESC">>)>>
  /\ SubSeq(text, Len(text) - 7, Len(text)) = OrderByTimeDesc

ExpectedSeriesLimit == "invalid SLIMIT clause, expected unsigned integer"

\* C17: SOFFSET followed by whitespace and something that is not an
\* unsigned integer fails with the message "invalid SLIMIT clause, expected
\* unsigned integer", the message SLIMIT uses; SOFFSET with an unsigned
\* integer sets series_offset and not series_limit.
C17_SeriesOffset ==
  /\ (IsTest("soffset_clause") /\ Parsed) =>
       /\ src.k = "other" => FailedWith(result, ExpectedSeriesLimit)
       /\ src.k = "number" =>
            (result.ok /\ result.rem = << >> /\ result.val \in {5, 20})
  /\ (IsTest("slimit_clause") /\ Parsed /\ src.k = "other") =>
       FailedWith(result, ExpectedSeriesLimit)
  /\ (IsSelect /\ Parsed /\ src.head.valid /\ Len(src.clauses) = 1
        /\ src.clauses[1].slot = 8) =>
       IF src.clauses[1].class = "valid"
       THEN /\ result.ok
            /\ result.val.series_offset = Some(5)
            /\ result.val.series_limit = None
       ELSE FailedWith(result, ExpectedSeriesLimit)

C17_Witness ==
  /\ IsTest("soffset_clause") /\ pc = "parsed"
  /\ input = <<"SOFFSET", " ", "foo">>
  /\ FailedWith(result, ExpectedSeriesLimit)

ClauseKeywords ==
  {"SELECT", "FROM", "WHERE", "GROUP", "FILL", "ORDER", "LIMIT", "OFFSET",
   "SLIMIT", "SOFFSET", "TZ"}

RECURSIVE TopKeywords(_, _, _)
\* The clause keywords of the text t from its k-th piece on that are
\* outside all parentheses, in the order written; d is the number of
\* parentheses open before the k-th piece.
TopKeywords(t, k, d) ==
  IF k > Len(t) THEN << >>
  ELSE IF t[k] = "(" THEN TopKeywords(t, k + 1, d + 1)
  ELSE IF t[k] = ")" THEN TopKeywords(t, k + 1, d - 1)
  ELSE IF d = 0 /\ t[k] \in ClauseKeywords
       THEN <<t[k]>> \o TopKeywords(t, k + 1, d)
       ELSE TopKeywords(t, k + 1, d)

\* The clause keywords of the grammar, in its order, for the clauses the
\* SelectStatement s has.
GrammarOrder(s) ==
  <<"SELECT", "FROM">>
    \o (IF IsSome(s.condition) THEN <<"WHERE">> ELSE << >>)
    \o (IF IsSome(s.group_by) THEN <<"GROUP">> ELSE << >>)
    \o (IF IsSome(s.fill_option) THEN <<"FILL">> ELSE << >>)
    \o (IF s.order_by = Some("Descending") THEN <<"ORDER">> ELSE << >>)
    \o (IF IsSome(s.limit) THEN <<"LIMIT">> ELSE << >>)
    \o (IF IsSome(s.offset) THEN <<"OFFSET">> ELSE << >>)
    \o (IF IsSome(s.series_limit) THEN <<"SLIMIT">> ELSE << >>)
    \o (IF IsSome(s.series_offset) THEN <<"SOFFSET">> ELSE << >>)
    \o (IF IsSome(s.timezone) THEN <<"TZ">> ELSE << >>)

\* The field of the SelectStatement s that the clause of the given slot
\* of select_statement's tuple is kept in.
SlotField(s, slot) ==
  CASE slot = 1 -> s.condition
    [] slot = 2 -> s.group_by
    [] slot = 3 -> s.fill_option
    [] slot = 4 -> s.order_by
    [] slot = 5 -> s.limit
    [] slot = 6 -> s.offset
    [] slot = 7 -> s.series_limit
    [] slot = 8 -> s.series_offset
    [] slot = 9 -> s.timezone

\* C18: Display of a SelectStatement writes the clauses in the order of
\* the grammar (SELECT, FROM, WHERE, GROUP BY, FILL, ORDER BY, LIMIT,
\* OFFSET, SLIMIT, SOFFSET, TZ), each optional clause exactly when its
\* field is present and ORDER BY only when descending; select_statement
\* accepts the optional clauses only in that order: the statement it
\* returns has exactly the clauses typed in that order before the first
\* one that is not, and the text it displays is accepted in full.
C18_GrammarOrder ==
  /\ (IsSelect /\ WasDisplayed) =>
       TopKeywords(text, 1, 0) = GrammarOrder(result.val)
  /\ (IsSelect /\ Parsed /\ result.ok) =>
       \A slot \in 1..9 :
         IsSome(SlotField(result.val, slot)) <=>
           \E k \in 1..Accepted(src.clauses, 1, 0) : src.clauses[k].slot = slot
  /\ (IsSelect /\ Reparsed /\ result2.ok) =>
       TopKeywords(text, 1, 0) = GrammarOrder(result2.val)

C18_Witness ==
  /\ IsSelect /\ pc = "displayed"
  /\ Len(src.clauses) = 2 /\ src.clauses[1].slot = 5 /\ src.clauses[2].slot = 2
  /\ result.val.limit = Some(5) /\ result.val.group_by = None
  /\ TopKeywords(text, 1, 0) = <<"SELECT", "FROM", "LIMIT">>

ExpectedString == "invalid TZ clause, expected string"

\* C19: every timezone string, with or without newline, backslash, single
\* quote and double quote, is read by timezone_clause from its typed text,
\* and the text TZ('...') that Display writes for it is parsed by
\* timezone_clause back to exactly that string, in a clause alone and in
\* a statement; a TZ clause whose argument is not a single-quoted string
\* fails with "invalid TZ clause, expected string".
C19_TimezoneRoundTrip ==
  /\ (IsTest("timezone_clause") /\ Parsed /\ src.k = "escaped") =>
       (result.ok /\ result.rem = << >> /\ result.val = src.tz)
  /\ (IsTest("timezone_clause") /\ Parsed /\ src.k = "string") => result.ok
  /\ (IsTest("timezone_clause") /\ Reparsed) =>
       (result2.ok /\ result2.rem = << >> /\ result2.val = result.val)
  /\ (IsTest("timezone_clause") /\ Parsed /\ src.k = "other") =>
       FailedWith(result, ExpectedString)
  /\ (IsSelect /\ Reparsed /\ result2.ok) =>
       result2.val.timezone = result.val.timezone
  /\ (IsSelect /\ Parsed /\ src.head.valid /\ Len(src.clauses) = 1
        /\ src.clauses[1].slot = 9 /\ src.clauses[1].class = "guarded") =>
       FailedWith(result, ExpectedString)

C19_Witness ==
  /\ IsTest("timezone_clause") /\ pc = "reparsed"
  /\ result.val = <<"\\", "'">>
  /\ text = <<"TZ", "(", "'", "\\", "\\", "\\", "'", "'", ")">>
  /\ result2.ok /\ result2.val = <<"\\", "'">>

ExpectedBy == "invalid GROUP BY clause, expected BY"

ExpectedAlias == "invalid field alias, expected identifier"

\* The clause typed as f has its keyword (and, for FILL and TZ, its opening
\* parenthesis) followed by a missing or wrong token where expect guards
\* the grammar: GROUP without BY, TIME without a duration, FILL( with
\* something that is no option, SLIMIT or SOFFSET without an unsigned
\* integer, TZ( without a string.
WrongToken(f) ==
  \/ f.class = "guarded"
  \/ f.slot = 3 /\ f.class # "valid" /\ \E k \in DOMAIN f.text : f.text[k] = "("

\* The message of the position of the clause typed as f that expect guards.
ClauseMessage(f) ==
  CASE f.slot = 2 ->
         IF \E k \in DOMAIN f.text : Lower(f.text[k]) = "by"
         THEN ExpectedDuration ELSE ExpectedBy
    [] f.slot = 3 -> ExpectedFillOption
    [] f.slot \in {7, 8} -> ExpectedSeriesLimit
    [] f.slot = 9 -> ExpectedString

\* The SELECT ... FROM part typed as h has an AS followed by something that
\* is not an identifier.
AliasNotIdentifier(h) ==
  \E k \in DOMAIN h.text :
    /\ Lower(h.text[k]) = "as" /\ k + 2 <= Len(h.text)
    /\ IsDigits(h.text[k + 2])

\* C20: the first unrecoverable error is returned and never absorbed: when
\* an optional clause of select_statement, typed in the order of the
\* grammar, has matched its keyword and then has a missing or wrong token
\* at an expect-guarded position, or a field has AS without an identifier,
\* the whole select_statement fails with the message of that position; the
\* clause is not treated as absent and the statement does not succeed.
C20_FirstUnrecoverableError ==
  /\ (IsSelect /\ Parsed /\ src.head.valid) =>
       LET cs == src.clauses
           n  == Accepted(src.clauses, 1, 0)
       IN  (n < Len(cs) /\ cs[n + 1].slot > SlotOf(cs, n) /\ WrongToken(cs[n + 1]))
             => FailedWith(result, ClauseMessage(cs[n + 1]))
  /\ (IsSelect /\ Parsed /\ AliasNotIdentifier(src.head)) =>
       FailedWith(result, ExpectedAlias)

\* C21: in the offset (second) argument of a TIME call the only function
\* call accepted is now with no arguments: any other call expression
\* there, of another function or of now with arguments, fails with the
\* unrecoverable error "invalid expression, the only valid function call
\* is 'now' with no arguments", whatever follows it; a duration or a
\* single-quoted string is accepted as a literal.
C21_OnlyNowCall ==
  (Parsed /\ ValidInterval) =>
    /\ src.offset.k = "other_call" => FailedWith(result, OnlyNow)
    /\ (src.offset.k \in {"now", "duration", "string"} /\ src.close.k = "paren") =>
         /\ result.ok /\ result.rem = << >>
         /\ IsSome(result.val.offset)
         /\ result.val.offset[1].kind =
              (IF src.offset.k = "now" THEN "Call" ELSE "Literal")
         /\ src.offset.k = "now" => is_valid_now_call(result.val.offset[1])

C21_Witness ==
  /\ pc = "parsed" /\ ValidInterval /\ src.close.k = "paren"
  /\ src.offset.text = <<",", "now", "(", "5m", ")">>
  /\ FailedWith(result, OnlyNow)

\* C22: every bare identifier that is not a reserved keyword is accepted
\* as a GROUP BY dimension and yields Dimension::Tag with that name, an
\* identifier that begins with the letters of TIME in any case (timestamp,
\* Timestamp) included: it is a tag, not the start of a TIME call.
C22_BareIdentifierIsTag ==
  (IsTest("group_by_clause") /\ src.k = "tag" /\ Parsed) =>
    /\ result.ok /\ result.rem = << >>
    /\ result.val = <<DimTag(IdentRun(SubSeq(src.text, 5, Len(src.text))))>>

\* The built-in handler of a path.
BuiltIn ==
  [p \in BuiltInPaths |->
     CASE p = "/health" -> "health"
       [] p = "/metrics" -> "handle_metrics"
       [] p = "/debug/pprof" -> "pprof_home"
       [] p = "/debug/pprof/profile" -> "pprof_profile"
       [] p = "/debug/pprof/allocs" -> "pprof_heappy_profile"]

ErrorStatuses == {"bad_request", "internal_error", "no_content", "not_found"}

\* route_request has answered a request.
Routed == routed # None

\* C23: route_request never returns an error.  For every request, GET on
\* /health, /metrics, /debug/pprof, /debug/pprof/profile and
\* /debug/pprof/allocs is handled by the built-in handler, and every other
\* method and path is delegated to the server type's route_http_request;
\* the error of a handler is converted to an HTTP response, that of a
\* delegated RunModeRouteError being the response of its source error; and
\* the request that is logged and dispatched has no authorization header.
C23_RouteRequestInfallible ==
  Routed =>
    /\ routed[1].ret.ok
    /\ IF routed[1].received.method = "GET"
            /\ routed[1].received.path \in BuiltInPaths
       THEN routed[1].handler = BuiltIn[routed[1].received.path]
       ELSE /\ routed[1].handler = "route_http_request"
            /\ routed[1].handled =
                 context_RunModeRouteError(
                   route_http_request(routed[1].seen))
    /\ routed[1].handled.ok => routed[1].ret.val = routed[1].handled.val
    /\ ~routed[1].handled.ok =>
         /\ routed[1].ret.val.status \in ErrorStatuses
         /\ routed[1].ret.val.body = routed[1].handled.err.err
              \/ routed[1].handled.err.err = "RunModeRouteError"
         /\ routed[1].handled.err.err = "RunModeRouteError" =>
              routed[1].ret.val =
                TestApplicationError_response(routed[1].handled.err.source)
    /\ "authorization" \notin routed[1].seen.headers
    /\ routed[1].seen.headers =
         routed[1].received.headers \ {"authorization"}
    /\ routed[1].log[1].level = "debug"
    /\ "authorization" \notin routed[1].log[1].request.headers

\* A POST on /health that carried an authorization header was delegated
\* and answered with the response of RouteNotFound.
C23_Witness ==
  /\ Routed
  /\ routed[1].received.method = "POST"
  /\ routed[1].received.path = "/health"
  /\ "authorization" \in routed[1].received.headers
  /\ routed[1].handler = "route_http_request"
  /\ routed[1].ret.ok
  /\ routed[1].ret.val.status = "not_found"

\* The test actions under which join() awaits the token.
Awaiting == TestAction \ {"EarlyReturnFromServerWorker", "PanicInServerWorker"}

\* C24: for a TestServerType whose test_action is neither
\* EarlyReturnFromServerWorker nor PanicInServerWorker, no join() has
\* completed while shutdown() has not been called; once shutdown() has
\* been called, every join() that is pending completes and every join()
\* called later completes; with EarlyReturnFromServerWorker every join()
\* completes though shutdown() is never called; and a shutdown() after the
\* first changes neither the token nor any join().
C24_JoinAwaitsShutdown ==
  /\ [](\A j \in 1..MaxJoins :
          (test_action \in Awaiting /\ joins[j] = "done") =>
            shutdown_calls > 0)
  /\ \A j \in 1..MaxJoins :
       (test_action \in Awaiting /\ shutdown_calls > 0
          /\ joins[j] = "waiting") ~> (joins[j] = "done")
  /\ [][\A j \in 1..MaxJoins :
          (/\ \/ test_action \in Awaiting /\ shutdown_calls > 0
              \/ test_action = "EarlyReturnFromServerWorker"
           /\ joins'[j] # joins[j]) => joins'[j] = "done"]_vars
  /\ [](test_action = "EarlyReturnFromServerWorker" =>
          \A j \in 1..MaxJoins : joins[j] \in {"idle", "done"})
  /\ [][(shutdown_calls > 0 /\ shutdown_calls' > shutdown_calls) =>
          (shutdown' = shutdown /\ joins' = joins)]_vars

\* shutdown() has been called twice, a join() that had to await the token
\* has completed and another is still pending.
C24_Witness ==
  /\ test_action = "None"
  /\ shutdown_calls = MaxShutdowns
  /\ joins[1] = "done"
  /\ joins[2] = "waiting"

\* With EarlyReturnFromServerWorker a join() has completed and shutdown()
\* was never called.
C24_EarlyWitness ==
  /\ test_action = "EarlyReturnFromServerWorker"
  /\ shutdown_calls = 0
  /\ joins[1] = "done"

=============================================================================
